---- MODULE Spec2Model ----
(***************************************************************************)
(* Verification model of the back-pressure demo.                           *)
(*                                                                         *)
(*   app/worker.py       asyncio WorkerPool, CircuitBreaker and            *)
(*                       PostgresAdapter                                   *)
(*   app/worker_pool.py  future-based WorkerPool                           *)
(*   app/downstream.py   DownstreamClient and its CircuitBreaker           *)
(*   tests/test_worker.py  threaded WorkerPool                             *)
(*                                                                         *)
(* The asyncio event loop is cooperative: code between two awaits runs     *)
(* atomically, so every action below is the code from one suspension point *)
(* (queue.get, queue.put on a full queue, the downstream wait, the backoff *)
(* sleep) to the next.                                                     *)
(***************************************************************************)
EXTENDS Integers, Sequences, FiniteSets, TLC

\* ------------------------------------------------------------ bounds
MaxSize == 2          \* maxsize of the asyncio.Queue
NumWorkers == 2       \* workers
MaxTasks == 3         \* payloads the environment submits
MaxRetries == 1       \* max_retries is drawn from 0..MaxRetries
MaxThreshold == 2     \* threshold is drawn from 1..MaxThreshold
ResetTimeout == 2     \* reset_timeout, in clock ticks
MaxTime == 4          \* the clock stops here
MaxJobs == 3          \* jobs the environment submits to app/worker_pool.py
MaxDsRetries == 1     \* DownstreamClient.retries is drawn from 0..MaxDsRetries
TpMaxSize == 1        \* queue_maxsize of the threaded pool of tests/test_worker.py
TpMaxTasks == 2       \* tasks the test submits to the threaded pool
TpRetryLimit == 1     \* retry_limit is drawn from 0..TpRetryLimit
BoMaxRetries == 3     \* max_retries of the pool whose backoff delays are observed
MaxBase == 2          \* backoff_base is drawn from 1..MaxBase, in units of its own
JitterSteps == 4      \* random.random() is drawn from {0, 1/4, 2/4, 3/4}
MaxFailures == 8      \* record_failure calls a caller of the bare CircuitBreaker makes in a row
MaxCallers == 3       \* concurrent get_or_set calls for the one key of app/cache.py
CacheTtl == 1         \* ttl of those calls, in clock ticks
QUEUE_MAXSIZE == 1    \* maxsize of the queue of app/__init__.py (10 in the source)
MaxReqs == 3          \* POST /process requests the clients of app/__init__.py send
CB_FAILURE_THRESHOLD == 2  \* failures that open the breaker of app/__init__.py (5 in the source)
CB_OPEN_SECONDS == 2  \* how long that breaker stays open, in clock ticks (5 in the source)

\* Python's None: the shutdown sentinel of the queue and the unset opened_at.
None == -1

Workers == 1..NumWorkers
Tasks == 1..MaxTasks
Jobs == 1..MaxJobs
TpTasks == 1..TpMaxTasks
Reqs == 1..MaxReqs
Callers == 1..MaxCallers

\* app/__init__.py: the Retry-After value of both rejections, and the attempts
\* process_item makes.
RETRY_AFTER_SEC == 1
MaxAttempts == 3

VARIABLES
    prog,             \* which program of the repository is running
    now,              \* time.time()
    \* --- app/worker.py: WorkerPool
    queue,            \* self.queue: payloads (task ids) and None sentinels
    putters,          \* queue.put calls suspended on the full queue, FIFO
    stopping,         \* self._stopping
    occupied,         \* self.occupied
    max_retries,      \* self.max_retries
    workers,          \* self.workers: the configured worker count W
    pc,               \* where each worker loop is suspended
    item,             \* the item a worker holds
    attempt,          \* attempt of _process_with_retries
    stop_pc,          \* where stop() is
    stop_left,        \* sentinels stop() has still to put
    \* --- app/worker.py: CircuitBreaker
    threshold,        \* circuit.threshold
    circuit,          \* [failures, opened_at]
    \* --- app/worker.py: metrics
    QUEUE_DEPTH, REJECTED, PROCESS_ERRORS, PROCESS_SUCCESS,
    \* --- the environment and the history of each task
    st,               \* new, waiting, queued, rejected, claimed, done, failed,
                      \* circuit_open, unrecorded
    script,           \* downstream failures of the task before its first success
    calls,            \* handler invocations of the task so far
    \* --- history of the breaker
    consec,           \* record_failure calls since the last record_success
    sinceClosed,      \* record_failure calls since the breaker was last closed
    threshAt,         \* when consec last reached the threshold
    trial,            \* the worker's call is the one let through after the cooldown
    trialResult,      \* outcome of the latest such call
    queuedAtStop,     \* the payloads that were in the queue when stop() was called
    \* --- app/worker_pool.py: WorkerPool
    wp_queue,         \* self.queue: job ids
    wp_putters,       \* queue.put calls suspended on the full queue, FIFO
    wp_running,       \* self._running
    wp_pc,            \* where each worker loop is suspended
    wp_job,           \* the job a worker holds
    fut,              \* the future of each job: none, pending, result, exception
    jst,              \* new, waiting, queued, rejected, claimed, finished
    \* --- app/worker_pool.py: metrics
    jobs_received, jobs_failed, jobs_processed, queue_size, active_workers,
    downstream_errors, circuit_open,
    \* --- app/downstream.py: DownstreamClient and CircuitBreaker
    ds_retries,       \* client.retries
    ds_attempt,       \* attempt of the loop in DownstreamClient.call
    fail_threshold,   \* cb.fail_threshold
    cb,               \* [fail_count, opened_at]
    ds_trial,         \* the worker's call is the one let through after the cooldown
    \* --- tests/test_worker.py: the threaded WorkerPool
    tp_queue,         \* self.queue: items [task, attempts]
    num_workers,      \* self.num_workers
    shutdown_event,   \* self.shutdown_event
    retry_limit,      \* self.retry_limit
    cb_threshold,     \* self.cb_threshold
    consecutive_failures,  \* self._consecutive_failures
    cb_open_until,    \* self.cb_open_until
    tp_active_workers,     \* self._active_workers
    worker_occupied,  \* the gauge of that name
    rejected,         \* the counter of that name
    tp_pc,            \* where each worker thread is
    tp_item,          \* the item a worker thread holds
    tp_val,           \* the value a thread computed for _set_worker_occupied
    sub_pc,           \* where the submitting thread is inside submit
    tst,              \* new, checked, accepted, rejected, done, exhausted, dropped
    tp_script,        \* failures of the task's function before its first success
    execs,            \* executions of the task's function so far
    \* app/__init__.py
    ap_queue,         \* queue: the ids of the queued items, oldest first
    results,          \* results: the entry of each id
    ap_cb,            \* _cb: failures and open_until
    ap_pc,            \* where each worker_loop is: get, call, latency, backoff
    ap_item,          \* the id of the item a worker_loop processes, or None
    ap_attempt,       \* process_item's local attempt
    response,         \* the HTTP response each POST /process got
    bo_max_retries,   \* self.max_retries of the pool whose delays are observed
    backoff_base,     \* self.backoff_base
    bo_attempt,       \* _process_with_retries' local attempt
    bo_slept,         \* the delays slept for the task so far, un-jittered and jittered
    bo_pc,            \* where that _process_with_retries is: idle, attempt, sleep
    ca_data,          \* self._data[key]: NoData or the entry (exp, val)
    ca_locks,         \* self._locks[key]: the caller whose lock is registered, or 0
    ca_holder,        \* who holds the lock each caller created, or 0
    ca_waiters,       \* the callers suspended in acquire of each lock, oldest first
    ca_pc,            \* where each get_or_set call is: idle, wait, woken, loading, done
    ca_lock           \* the lock each call took from self._locks

poolVars == <<queue, putters, stopping, occupied, max_retries, workers, pc, item, attempt,
              stop_pc, stop_left>>
cbVars == <<threshold, circuit>>
metricVars == <<QUEUE_DEPTH, REJECTED, PROCESS_ERRORS, PROCESS_SUCCESS>>
taskVars == <<st, script, calls>>
histVars == <<consec, sinceClosed, threshAt, trial, trialResult>>
workerVars == <<poolVars, cbVars, metricVars, taskVars, histVars, queuedAtStop>>

wpPoolVars == <<wp_queue, wp_putters, wp_running, wp_pc, wp_job, fut, jst>>
wpMetricVars == <<jobs_received, jobs_failed, jobs_processed, queue_size, active_workers,
                  downstream_errors, circuit_open>>
dsVars == <<ds_retries, ds_attempt, fail_threshold, cb, ds_trial>>
workerPoolVars == <<wpPoolVars, wpMetricVars, dsVars>>

testPoolVars == <<tp_queue, num_workers, shutdown_event, retry_limit, cb_threshold,
                  consecutive_failures, cb_open_until, tp_active_workers,
                  worker_occupied, rejected, tp_pc, tp_item, tp_val, sub_pc, tst,
                  tp_script, execs>>

appVars == <<ap_queue, results, ap_cb, ap_pc, ap_item, ap_attempt, response>>

backoffVars == <<bo_max_retries, backoff_base, bo_attempt, bo_slept, bo_pc>>

cacheVars == <<ca_data, ca_locks, ca_holder, ca_waiters, ca_pc, ca_lock>>

\* What an action of one program leaves alone: the state of the others.
otherThanWorker == <<workerPoolVars, testPoolVars, appVars, backoffVars, cacheVars>>
otherThanWorkerPool == <<workerVars, testPoolVars, appVars, backoffVars, cacheVars>>
otherThanTestPool == <<workerVars, workerPoolVars, appVars, backoffVars, cacheVars>>
otherThanApp == <<workerVars, workerPoolVars, testPoolVars, backoffVars, cacheVars>>
otherThanBackoff == <<workerVars, workerPoolVars, testPoolVars, appVars, cacheVars>>
otherThanCache == <<workerVars, workerPoolVars, testPoolVars, appVars, backoffVars>>

vars == <<prog, now, workerVars, workerPoolVars, testPoolVars, appVars, backoffVars, cacheVars>>

Min(a, b) == IF a <= b THEN a ELSE b

\* ------------------------------------------------ asyncio.Queue(maxsize)
\* Mutant: the queue also counts as full while every worker is occupied.
Full_occupied(q) == (MaxSize > 0 /\ Len(q) >= MaxSize) \/ occupied >= NumWorkers

\* Queue.full(): a maxsize <= 0 means unbounded.
Full(q) == MaxSize > 0 /\ Len(q) >= MaxSize

\* Mutant: the timed-out put stays among the suspended puts.
RemoveAt_none(s, i) == s

\* wait_for cancels the i-th suspended put: it leaves the waiters of the queue.
RemoveAt(s, i) == [j \in 1..(Len(s) - 1) |-> IF j < i THEN s[j] ELSE s[j + 1]]

\* --------------------------------------------- app/worker.py: CircuitBreaker
record_success(c) == [failures |-> 0, opened_at |-> None]

\* Mutant: the breaker opens one failure late.
record_failure_late(c, t) ==
    LET f == c.failures + 1 IN
    IF f > threshold /\ c.opened_at = None
    THEN [failures |-> f, opened_at |-> t]
    ELSE [failures |-> f, opened_at |-> c.opened_at]

record_failure(c, t) ==
    LET f == c.failures + 1 IN
    IF f >= threshold /\ c.opened_at = None
    THEN [failures |-> f, opened_at |-> t]
    ELSE [failures |-> f, opened_at |-> c.opened_at]

\* Mutant: the window is over only after more than reset_timeout.
Elapsed_strict(c, t) == t - c.opened_at > ResetTimeout

\* The window of an open breaker has elapsed.
Elapsed(c, t) == t - c.opened_at >= ResetTimeout

\* is_open() returns a value and may reset the breaker.
is_open(c, t) ==
    IF c.opened_at = None THEN [open |-> FALSE, cb |-> c]
    ELSE IF Elapsed(c, t)
         THEN [open |-> FALSE, cb |-> [failures |-> 0, opened_at |-> None]]
         ELSE [open |-> TRUE, cb |-> c]

\* --------------------------------------------- app/worker.py: WorkerPool
WorkerIdle ==
    /\ queue = <<>>
    /\ putters = <<>>
    /\ stopping = FALSE
    /\ occupied = 0
    /\ pc = [w \in Workers |-> "none"]
    /\ item = [w \in Workers |-> None]
    /\ attempt = [w \in Workers |-> 0]
    /\ stop_pc = "idle"
    /\ stop_left = 0
    /\ circuit = [failures |-> 0, opened_at |-> None]
    /\ QUEUE_DEPTH = 0
    /\ REJECTED = 0
    /\ PROCESS_ERRORS = 0
    /\ PROCESS_SUCCESS = 0
    /\ st = [t \in Tasks |-> "new"]
    /\ script = [t \in Tasks |-> 0]
    /\ calls = [t \in Tasks |-> 0]
    /\ consec = 0
    /\ sinceClosed = 0
    /\ threshAt = None
    /\ trial = [w \in Workers |-> FALSE]
    /\ trialResult = "none"
    /\ queuedAtStop = {}

WorkerPoolIdle ==
    /\ wp_queue = <<>>
    /\ wp_putters = <<>>
    /\ wp_running = FALSE
    /\ wp_pc = [w \in Workers |-> "none"]
    /\ wp_job = [w \in Workers |-> None]
    /\ fut = [j \in Jobs |-> "none"]
    /\ jst = [j \in Jobs |-> "new"]
    /\ jobs_received = 0
    /\ jobs_failed = 0
    /\ jobs_processed = 0
    /\ queue_size = 0
    /\ active_workers = 0
    /\ downstream_errors = 0
    /\ circuit_open = 0
    /\ ds_attempt = [w \in Workers |-> 0]
    /\ cb = [fail_count |-> 0, opened_at |-> 0]
    /\ ds_trial = [w \in Workers |-> FALSE]

\* The local variable item of a thread that holds no item.
NoItem == [task |-> None, attempts |-> 0]

\* tests/test_worker.py: the pool as __init__ leaves it, but for its threads.
TestPoolIdle ==
    /\ tp_queue = <<>>
    /\ shutdown_event = FALSE
    /\ consecutive_failures = 0
    /\ cb_open_until = 0
    /\ tp_active_workers = 0
    /\ worker_occupied = 0
    /\ rejected = 0
    /\ tp_item = [w \in Workers |-> NoItem]
    /\ tp_val = [w \in Workers |-> 0]
    /\ sub_pc = "idle"
    /\ tst = [t \in TpTasks |-> "new"]
    /\ tp_script = [t \in TpTasks |-> 0]
    /\ execs = [t \in TpTasks |-> 0]

\* app/__init__.py: an id without an entry in results, and a request that has
\* no response yet.
NoEntry == [status |-> "absent", result |-> FALSE]
NoResponse == [status |-> 0, retry_after |-> 0, detail |-> "", id |-> None]

\* app/__init__.py: the module state as the import leaves it (lines 23-29).
AppIdle ==
    /\ ap_queue = <<>>
    /\ results = [r \in Reqs |-> NoEntry]
    /\ ap_cb = [failures |-> 0, open_until |-> 0]
    /\ ap_item = [w \in Workers |-> None]
    /\ ap_attempt = [w \in Workers |-> 0]
    /\ response = [r \in Reqs |-> NoResponse]

\* app/cache.py: no entry for the key.
NoData == [exp |-> 0, val |-> "absent"]

\* TTLCache.__init__, and no get_or_set call has been made.
CacheOff ==
    /\ ca_data = NoData
    /\ ca_locks = 0
    /\ ca_holder = [c \in Callers |-> 0]
    /\ ca_waiters = [c \in Callers |-> <<>>]
    /\ ca_pc = [c \in Callers |-> "idle"]
    /\ ca_lock = [c \in Callers |-> 0]

\* _process_with_retries of app/worker.py is not observed for its delays.
BackoffOff ==
    /\ bo_max_retries = 0
    /\ backoff_base = 0
    /\ bo_attempt = 0
    /\ bo_slept = <<>>
    /\ bo_pc = "idle"

\* app/__init__.py is not the program that runs: no worker_loop exists.
AppOff == AppIdle /\ ap_pc = [w \in Workers |-> "none"]

\* WorkerPool.__init__ of app/worker.py, with its CircuitBreaker.
InitWorker ==
    /\ prog = "worker"
    /\ now = 1
    /\ workers = NumWorkers
    /\ max_retries \in 0..MaxRetries
    /\ threshold \in 1..MaxThreshold
    /\ WorkerIdle
    /\ WorkerPoolIdle
    /\ ds_retries = 0
    /\ fail_threshold = 1
    /\ TestPoolIdle
    /\ AppOff
    /\ CacheOff
    /\ BackoffOff
    /\ num_workers = 0
    /\ tp_pc = [w \in Workers |-> "none"]
    /\ retry_limit = 0
    /\ cb_threshold = 1

\* WorkerPool.__init__ of app/worker.py with fewer configured workers than the
\* model has room for loops, so that start() can be called more than once.
InitWorkerStarts ==
    /\ prog = "worker"
    /\ now = 1
    /\ workers \in 1..(NumWorkers - 1)
    /\ max_retries \in 0..MaxRetries
    /\ threshold \in 1..MaxThreshold
    /\ WorkerIdle
    /\ WorkerPoolIdle
    /\ ds_retries = 0
    /\ fail_threshold = 1
    /\ TestPoolIdle
    /\ AppOff
    /\ CacheOff
    /\ BackoffOff
    /\ num_workers = 0
    /\ tp_pc = [w \in Workers |-> "none"]
    /\ retry_limit = 0
    /\ cb_threshold = 1

\* start(): self.workers new worker loops, each suspended in queue.get(), are
\* appended to _tasks; nothing in start() looks at the loops that exist already.
\* The driver calls it before stop() (as main() does), and only while the model
\* has room for self.workers more loops.
start ==
    /\ prog = "worker"
    /\ stop_pc = "idle"
    /\ LET n == Cardinality({w \in Workers : pc[w] # "none"}) IN
       /\ n + workers <= NumWorkers
       /\ pc' = [w \in Workers |-> IF w > n /\ w <= n + workers THEN "get" ELSE pc[w]]
    /\ UNCHANGED <<prog, otherThanWorker, now,
                   queue, putters, stopping, occupied, max_retries, workers, queuedAtStop, item,
                   attempt, stop_pc, stop_left, cbVars, metricVars, taskVars, histVars>>

\* The next payload of the environment.
NextTask(t) == st[t] = "new" /\ \A u \in Tasks : u < t => st[u] # "new"

\* submit(payload, block=False): put_nowait, QueueFull is a rejection.
submit_nowait(t) ==
    /\ prog = "worker"
    /\ NextTask(t)
    /\ IF Full(queue)
       THEN /\ REJECTED' = REJECTED + 1
            /\ st' = [st EXCEPT ![t] = "rejected"]
            /\ UNCHANGED <<queue, QUEUE_DEPTH>>
       ELSE /\ queue' = Append(queue, t)
            /\ QUEUE_DEPTH' = Len(queue')
            /\ st' = [st EXCEPT ![t] = "queued"]
            /\ UNCHANGED REJECTED
    /\ UNCHANGED <<prog, otherThanWorker, now,
                   putters, stopping, occupied, max_retries, workers, queuedAtStop, pc, item, attempt,
                   stop_pc, stop_left, cbVars, PROCESS_ERRORS, PROCESS_SUCCESS, script,
                   calls, histVars>>

\* submit(payload, block=True, timeout): wait_for(queue.put(payload), timeout).
\* Without a timeout the put runs at once when there is room; with one it runs
\* as a task of its own, so it is a suspended put until the loop resumes it.
submit_block(t, timed) ==
    /\ prog = "worker"
    /\ NextTask(t)
    /\ IF ~timed /\ ~Full(queue)
       THEN /\ queue' = Append(queue, t)
            /\ QUEUE_DEPTH' = Len(queue')
            /\ st' = [st EXCEPT ![t] = "queued"]
            /\ UNCHANGED putters
       ELSE /\ putters' = Append(putters, [task |-> t, timed |-> timed])
            /\ st' = [st EXCEPT ![t] = "waiting"]
            /\ UNCHANGED <<queue, QUEUE_DEPTH>>
    /\ UNCHANGED <<prog, otherThanWorker, now,
                   stopping, occupied, max_retries, workers, queuedAtStop, pc, item, attempt,
                   stop_pc, stop_left, cbVars, REJECTED, PROCESS_ERRORS, PROCESS_SUCCESS,
                   script, calls, histVars>>

\* stop()'s loop of "await self.queue.put(None)": the puts that find room run
\* without suspension; the first that finds the queue full suspends.
\* Mutant: the sentinels are put without regard to the room left.
StopPuts_unbounded(q, n) == n

StopPuts(q, n) == Min(n, IF MaxSize > 0 THEN MaxSize - Len(q) ELSE n)

Sentinels(k) == [i \in 1..k |-> None]

\* stop(): set the flag, then put one sentinel per worker task.
stop ==
    /\ prog = "worker"
    /\ stop_pc = "idle"
    /\ stopping' = TRUE
    /\ queuedAtStop' = {t \in Tasks : st[t] = "queued"}
    /\ LET n == Cardinality({w \in Workers : pc[w] # "none"})
           k == StopPuts(queue, n)
       IN /\ queue' = queue \o Sentinels(k)
          /\ stop_left' = n - k
          /\ IF n - k > 0
             THEN /\ putters' = Append(putters, [task |-> None, timed |-> FALSE])
                  /\ stop_pc' = "putting"
             ELSE /\ putters' = putters
                  /\ stop_pc' = "gathering"
    /\ UNCHANGED <<prog, otherThanWorker, now,
                   occupied, max_retries, workers, pc, item, attempt, cbVars,
                   metricVars, taskVars, histVars>>

\* The event loop resumes the first suspended put once the queue has room.
put_resume ==
    /\ prog = "worker"
    /\ putters # <<>>
    /\ ~Full(queue)
    /\ LET p == Head(putters) IN
       IF p.task = None
       THEN LET k == StopPuts(queue, stop_left) IN
            /\ queue' = queue \o Sentinels(k)
            /\ stop_left' = stop_left - k
            /\ IF stop_left - k > 0
               THEN /\ putters' = Append(Tail(putters), p)
                    /\ stop_pc' = "putting"
               ELSE /\ putters' = Tail(putters)
                    /\ stop_pc' = "gathering"
            /\ UNCHANGED <<QUEUE_DEPTH, st>>
       ELSE /\ queue' = Append(queue, p.task)
            /\ QUEUE_DEPTH' = Len(queue')
            /\ st' = [st EXCEPT ![p.task] = "queued"]
            /\ putters' = Tail(putters)
            /\ UNCHANGED <<stop_left, stop_pc>>
    /\ UNCHANGED <<prog, otherThanWorker, now,
                   stopping, occupied, max_retries, workers, queuedAtStop, pc, item, attempt, cbVars,
                   REJECTED, PROCESS_ERRORS, PROCESS_SUCCESS, script, calls, histVars>>

\* wait_for's timeout cancels a suspended put: submit returns False.
put_timeout(i) ==
    /\ prog = "worker"
    /\ i \in 1..Len(putters)
    /\ putters[i].timed
    /\ putters' = RemoveAt(putters, i)
    /\ REJECTED' = REJECTED + 1
    /\ st' = [st EXCEPT ![putters[i].task] = "rejected"]
    /\ UNCHANGED <<prog, otherThanWorker, now,
                   queue, stopping, occupied, max_retries, workers, queuedAtStop, pc, item, attempt,
                   stop_pc, stop_left, cbVars, QUEUE_DEPTH, PROCESS_ERRORS,
                   PROCESS_SUCCESS, script, calls, histVars>>

\* stop(): gather returns once every worker task has ended.
stop_return ==
    /\ prog = "worker"
    /\ stop_pc = "gathering"
    /\ \A w \in Workers : pc[w] \in {"none", "exited"}
    /\ stop_pc' = "returned"
    /\ UNCHANGED <<prog, otherThanWorker, now,
                   queue, putters, stopping, occupied, max_retries, workers, queuedAtStop, pc, item,
                   attempt, stop_left, cbVars, metricVars, taskVars, histVars>>

\* Mutant: queue.get() hands out the item put last.
worker_get_last(w) ==
    /\ prog = "worker"
    /\ pc[w] = "get"
    /\ queue # <<>>
    /\ queue' = SubSeq(queue, 1, Len(queue) - 1)
    /\ QUEUE_DEPTH' = Len(queue')
    /\ IF queue[Len(queue)] = None
       THEN /\ pc' = [pc EXCEPT ![w] = "exited"]
            /\ UNCHANGED <<occupied, item, attempt, st, script>>
       ELSE /\ occupied' = occupied + 1
            /\ \E s \in 0..(max_retries + 1) :
                  script' = [script EXCEPT ![queue[Len(queue)]] = s]
            /\ item' = [item EXCEPT ![w] = queue[Len(queue)]]
            /\ attempt' = [attempt EXCEPT ![w] = 0]
            /\ st' = [st EXCEPT ![queue[Len(queue)]] = "claimed"]
            /\ pc' = [pc EXCEPT ![w] = "attempt"]
    /\ UNCHANGED <<prog, otherThanWorker, now,
                   putters, stopping, max_retries, workers, queuedAtStop, stop_pc, stop_left, cbVars,
                   REJECTED, PROCESS_ERRORS, PROCESS_SUCCESS, calls, histVars>>

\* _worker_loop: queue.get() returns; a sentinel ends the loop, a payload is claimed.
\* The script of a claimed payload is the number of downstream failures it meets
\* before its first success (max_retries + 1: every attempt fails); it stands for
\* the draws of random.random() in PostgresAdapter.write.
worker_get(w) ==
    /\ prog = "worker"
    /\ pc[w] = "get"
    /\ queue # <<>>
    /\ queue' = Tail(queue)
    /\ QUEUE_DEPTH' = Len(queue')
    /\ IF Head(queue) = None
       THEN /\ pc' = [pc EXCEPT ![w] = "exited"]
            /\ UNCHANGED <<occupied, item, attempt, st, script>>
       ELSE /\ occupied' = occupied + 1
            /\ \E s \in 0..(max_retries + 1) :
                  script' = [script EXCEPT ![Head(queue)] = s]
            /\ item' = [item EXCEPT ![w] = Head(queue)]
            /\ attempt' = [attempt EXCEPT ![w] = 0]
            /\ st' = [st EXCEPT ![Head(queue)] = "claimed"]
            /\ pc' = [pc EXCEPT ![w] = "attempt"]
    /\ UNCHANGED <<prog, otherThanWorker, now,
                   putters, stopping, max_retries, workers, queuedAtStop, stop_pc, stop_left, cbVars,
                   REJECTED, PROCESS_ERRORS, PROCESS_SUCCESS, calls, histVars>>

\* _worker_loop's finally block and the test of _stopping after it. The locals
\* item and attempt are dead from here to the next queue.get().
AfterItem(w) ==
    /\ occupied' = occupied - 1
    /\ item' = [item EXCEPT ![w] = None]
    /\ attempt' = [attempt EXCEPT ![w] = 0]
    /\ pc' = [pc EXCEPT ![w] = IF stopping THEN "exited" ELSE "get"]

\* Mutant: CircuitOpenError is handled like any other error of an attempt.
OnCircuitOpen_retry(w) ==
    /\ PROCESS_ERRORS' = PROCESS_ERRORS + 1
    /\ attempt' = [attempt EXCEPT ![w] = attempt[w] + 1]
    /\ pc' = [pc EXCEPT ![w] = "backoff"]
    /\ UNCHANGED <<st, occupied, item>>

\* _process_with_retries, except CircuitOpenError: count the error and return.
OnCircuitOpen(w) ==
    /\ PROCESS_ERRORS' = PROCESS_ERRORS + 1
    /\ st' = [st EXCEPT ![item[w]] = "circuit_open"]
    /\ AfterItem(w)

\* Mutant: the task is given up one attempt early.
GiveUp_early(a) == a >= max_retries

\* _process_with_retries, except Exception: the attempt was the last one.
GiveUp(a) == a > max_retries

\* _process_with_retries, except Exception: give up after the last attempt,
\* otherwise sleep the backoff.
OnError(w) ==
    /\ PROCESS_ERRORS' = PROCESS_ERRORS + 1
    /\ IF GiveUp(attempt[w])
       THEN /\ st' = [st EXCEPT ![item[w]] = "failed"]
            /\ AfterItem(w)
       ELSE /\ pc' = [pc EXCEPT ![w] = "backoff"]
            /\ UNCHANGED <<st, occupied, item, attempt>>

\* Mutant: the loop runs one attempt short.
InLoop_short(a) == a < max_retries

\* The loop head of _process_with_retries: while attempt <= self.max_retries.
InLoop(a) == a <= max_retries

\* _process_with_retries: the loop head, the handler call and PostgresAdapter.write
\* up to its first await: is_open() decides between CircuitOpenError and the
\* downstream operation.
start_attempt(w) ==
    /\ prog = "worker"
    /\ pc[w] = "attempt"
    /\ IF InLoop(attempt[w])
       THEN /\ calls' = [calls EXCEPT ![item[w]] = calls[item[w]] + 1]
            /\ LET r == is_open(circuit, now)
                   reset == circuit.opened_at # None /\ r.cb.opened_at = None
               IN /\ circuit' = r.cb
                  /\ sinceClosed' = IF reset THEN 0 ELSE sinceClosed
                  /\ trial' = [trial EXCEPT ![w] = reset]
                  /\ trialResult' = IF reset THEN "pending" ELSE trialResult
                  /\ IF r.open
                     THEN OnCircuitOpen(w)
                     ELSE /\ pc' = [pc EXCEPT ![w] = "write"]
                          /\ attempt' = [attempt EXCEPT ![w] = attempt[w] + 1]
                          /\ UNCHANGED <<PROCESS_ERRORS, st, occupied, item>>
       ELSE \* the loop ends without a return: nothing is recorded
            /\ st' = [st EXCEPT ![item[w]] = "unrecorded"]
            /\ AfterItem(w)
            /\ UNCHANGED <<calls, circuit, sinceClosed, trial, trialResult,
                           PROCESS_ERRORS>>
    /\ UNCHANGED <<prog, otherThanWorker, now,
                   queue, putters, stopping, max_retries, workers, queuedAtStop, stop_pc,
                   stop_left, threshold, QUEUE_DEPTH, REJECTED, PROCESS_SUCCESS, script,
                   consec, threshAt>>

\* The attempt-th downstream operation of a task fails while the script says so.
Fails(t, a) == a <= script[t]

\* PostgresAdapter.write after the downstream wait, and the rest of the attempt
\* in _process_with_retries.
finish_write(w) ==
    /\ prog = "worker"
    /\ pc[w] = "write"
    /\ trial' = [trial EXCEPT ![w] = FALSE]
    /\ IF Fails(item[w], attempt[w])
       THEN /\ circuit' = record_failure(circuit, now)
            /\ consec' = consec + 1
            /\ sinceClosed' = sinceClosed + 1
            /\ threshAt' = IF consec + 1 = threshold THEN now ELSE threshAt
            /\ trialResult' = IF trial[w] THEN "failed" ELSE trialResult
            /\ OnError(w)
            /\ UNCHANGED PROCESS_SUCCESS
       ELSE /\ circuit' = record_success(circuit)
            /\ consec' = 0
            /\ sinceClosed' = 0
            /\ trialResult' = IF trial[w] THEN "succeeded" ELSE trialResult
            /\ PROCESS_SUCCESS' = PROCESS_SUCCESS + 1
            /\ st' = [st EXCEPT ![item[w]] = "done"]
            /\ AfterItem(w)
            /\ UNCHANGED <<PROCESS_ERRORS, threshAt>>
    /\ UNCHANGED <<prog, otherThanWorker, now,
                   queue, putters, stopping, max_retries, workers, queuedAtStop, stop_pc, stop_left,
                   threshold, QUEUE_DEPTH, REJECTED, script, calls>>

\* The backoff sleep ends.
backoff_done(w) ==
    /\ prog = "worker"
    /\ pc[w] = "backoff"
    /\ pc' = [pc EXCEPT ![w] = "attempt"]
    /\ UNCHANGED <<prog, otherThanWorker, now,
                   queue, putters, stopping, occupied, max_retries, workers, queuedAtStop, item,
                   attempt, stop_pc, stop_left, cbVars, metricVars, taskVars, histVars>>

\* The wall clock advances. Only is_open(), the threaded pool's submit and the
\* breaker of app/__init__.py compare it, the first while an opened_at is set,
\* the others against a cb_open_until or open_until in the future, so the clock
\* is advanced only then, and in the threaded pool only while a submission is
\* still to come. The cache of app/cache.py compares it with the expiry of its
\* entry, so it advances while an entry has not expired.
Tick ==
    /\ now < MaxTime
    /\ \/ circuit.opened_at # None
       \/ cb.opened_at # 0
       \/ now < cb_open_until /\ \E t \in TpTasks : tst[t] = "new"
       \/ ap_cb.open_until > now
       \/ ca_data.exp >= now
    /\ now' = now + 1
    /\ UNCHANGED <<prog, workerVars, workerPoolVars, testPoolVars, appVars, backoffVars,
                   cacheVars>>

\* What the pool does while it is running: everything but stop().
NextRunning ==
    \/ start
    \/ put_resume
    \/ Tick
    \/ \E t \in Tasks : submit_nowait(t)
    \/ \E t \in Tasks : \E timed \in BOOLEAN : submit_block(t, timed)
    \/ \E i \in 1..MaxTasks : put_timeout(i)
    \/ \E w \in Workers : worker_get(w)
    \/ \E w \in Workers : start_attempt(w)
    \/ \E w \in Workers : finish_write(w)
    \/ \E w \in Workers : backoff_done(w)

NextWorker ==
    \/ start
    \/ stop
    \/ stop_return
    \/ put_resume
    \/ Tick
    \/ \E t \in Tasks : submit_nowait(t)
    \/ \E t \in Tasks : \E timed \in BOOLEAN : submit_block(t, timed)
    \/ \E i \in 1..MaxTasks : put_timeout(i)
    \/ \E w \in Workers : worker_get(w)
    \/ \E w \in Workers : start_attempt(w)
    \/ \E w \in Workers : finish_write(w)
    \/ \E w \in Workers : backoff_done(w)

SpecWorker == InitWorker /\ [][NextWorker]_vars

\* The same program when start() may be called again while the pool runs.
SpecWorkerStarts == InitWorkerStarts /\ [][NextWorker]_vars

\* The event loop runs every task that is ready: start() is called, a worker
\* whose get, downstream wait or sleep can return is resumed, and so is a
\* suspended put that has room.
FairWorker ==
    /\ WF_vars(start)
    /\ WF_vars(put_resume)
    /\ \A w \in Workers :
          /\ WF_vars(worker_get(w))
          /\ WF_vars(start_attempt(w))
          /\ WF_vars(finish_write(w))
          /\ WF_vars(backoff_done(w))

\* The pool started and never stopped, under a fair event loop.
FairSpecRunning == InitWorker /\ [][NextRunning]_vars /\ FairWorker

\* The pool from start() to the return of stop(), under a fair event loop that
\* also resumes stop() when its gather is complete.
FairSpecWorker == InitWorker /\ [][NextWorker]_vars /\ FairWorker /\ WF_vars(stop_return)

\* wait_for(queue.put(payload), timeout): the event loop fires the timer of a
\* timed put, and resumes a suspended put that has room.
FairTimers ==
    /\ WF_vars(put_resume)
    /\ \A t \in Tasks :
          WF_vars(\E i \in 1..MaxTasks : put_timeout(i) /\ putters[i].task = t)

\* The gate alone: submissions under a fair event loop, while the workers may
\* or may not take anything from the queue.
FairSpecGate == InitWorker /\ [][NextRunning]_vars /\ FairTimers


\* ------------------------------------------ app/downstream.py: CircuitBreaker
ds_record_success(c) == [fail_count |-> 0, opened_at |-> c.opened_at]

ds_record_failure(c, t) ==
    LET f == c.fail_count + 1 IN
    [fail_count |-> f, opened_at |-> IF f >= fail_threshold THEN t ELSE c.opened_at]

\* is_open() returns a value and may reset the breaker; opened_at = 0 is closed.
ds_is_open(c, t) ==
    IF c.opened_at = 0 THEN [open |-> FALSE, cb |-> c]
    ELSE IF t - c.opened_at > ResetTimeout
         THEN [open |-> FALSE, cb |-> [fail_count |-> 0, opened_at |-> 0]]
         ELSE [open |-> TRUE, cb |-> c]

\* ------------------------------------------ app/worker_pool.py: WorkerPool
\* WorkerPool.__init__ of app/worker_pool.py with its DownstreamClient.
InitWorkerPool ==
    /\ prog = "worker_pool"
    /\ now = 1
    /\ ds_retries \in 0..MaxDsRetries
    /\ fail_threshold \in 1..MaxThreshold
    /\ WorkerPoolIdle
    /\ WorkerIdle
    /\ workers = 0
    /\ max_retries = 0
    /\ threshold = 1
    /\ TestPoolIdle
    /\ AppOff
    /\ CacheOff
    /\ BackoffOff
    /\ num_workers = 0
    /\ tp_pc = [w \in Workers |-> "none"]
    /\ retry_limit = 0
    /\ cb_threshold = 1

\* start(): nothing when already running, else one worker loop per worker.
wp_start ==
    /\ prog = "worker_pool"
    /\ ~wp_running
    /\ wp_running' = TRUE
    /\ wp_pc' = [w \in Workers |-> "get"]
    /\ UNCHANGED <<prog, otherThanWorkerPool, now,
                   wp_queue, wp_putters, wp_job, fut, jst,
                   wpMetricVars, dsVars>>

InFlight(w) == wp_pc[w] \in {"call", "do_call", "jitter"}

\* stop(): every worker task is cancelled at the await it is suspended in. A
\* worker inside the downstream call runs its finally block (CancelledError is
\* not an Exception, so the future is left as it is) and ends.
wp_stop ==
    /\ prog = "worker_pool"
    /\ wp_running' = FALSE
    /\ wp_pc' = [w \in Workers |-> IF wp_pc[w] = "none" THEN "none" ELSE "exited"]
    /\ wp_job' = [w \in Workers |-> None]
    /\ ds_attempt' = [w \in Workers |-> 0]
    /\ ds_trial' = [w \in Workers |-> FALSE]
    /\ active_workers' = active_workers - Cardinality({w \in Workers : InFlight(w)})
    /\ jst' = [j \in Jobs |->
                 IF \E w \in Workers : InFlight(w) /\ wp_job[w] = j
                 THEN "cancelled" ELSE jst[j]]
    /\ UNCHANGED <<prog, otherThanWorkerPool, now,
                   wp_queue, wp_putters, fut,
                   jobs_received, jobs_failed, jobs_processed, queue_size,
                   downstream_errors, circuit_open, ds_retries, fail_threshold, cb>>

\* The next job of the environment.
NextJob(j) == jst[j] = "new" /\ \A u \in Jobs : u < j => jst[u] # "new"

\* submit(payload, timeout=None): put_nowait, QueueFull raises QueueFullError.
wp_submit_nowait(j) ==
    /\ prog = "worker_pool"
    /\ NextJob(j)
    /\ jobs_received' = jobs_received + 1
    /\ fut' = [fut EXCEPT ![j] = "pending"]
    /\ IF Full(wp_queue)
       THEN /\ jobs_failed' = jobs_failed + 1
            /\ jst' = [jst EXCEPT ![j] = "rejected"]
            /\ UNCHANGED <<wp_queue, queue_size>>
       ELSE /\ wp_queue' = Append(wp_queue, j)
            /\ queue_size' = Len(wp_queue')
            /\ jst' = [jst EXCEPT ![j] = "queued"]
            /\ UNCHANGED jobs_failed
    /\ UNCHANGED <<prog, otherThanWorkerPool, now,
                   wp_putters, wp_running, wp_pc, wp_job,
                   jobs_processed, active_workers, downstream_errors, circuit_open,
                   dsVars>>

\* submit(payload, timeout): wait_for(queue.put(...), timeout) runs the put as a
\* task of its own: a suspended put until the loop resumes it.
wp_submit_timed(j) ==
    /\ prog = "worker_pool"
    /\ NextJob(j)
    /\ jobs_received' = jobs_received + 1
    /\ fut' = [fut EXCEPT ![j] = "pending"]
    /\ wp_putters' = Append(wp_putters, j)
    /\ jst' = [jst EXCEPT ![j] = "waiting"]
    /\ UNCHANGED <<prog, otherThanWorkerPool, now,
                   wp_queue, wp_running, wp_pc, wp_job,
                   jobs_failed, jobs_processed, queue_size, active_workers,
                   downstream_errors, circuit_open, dsVars>>

\* The event loop resumes the first suspended put once the queue has room;
\* submit sets the gauge and returns the job id.
wp_put_resume ==
    /\ prog = "worker_pool"
    /\ wp_putters # <<>>
    /\ ~Full(wp_queue)
    /\ wp_queue' = Append(wp_queue, Head(wp_putters))
    /\ queue_size' = Len(wp_queue')
    /\ jst' = [jst EXCEPT ![Head(wp_putters)] = "queued"]
    /\ wp_putters' = Tail(wp_putters)
    /\ UNCHANGED <<prog, otherThanWorkerPool, now,
                   wp_running, wp_pc, wp_job, fut,
                   jobs_received, jobs_failed, jobs_processed, active_workers,
                   downstream_errors, circuit_open, dsVars>>

\* wait_for's timeout cancels the suspended put: QueueFullError.
wp_put_timeout(i) ==
    /\ prog = "worker_pool"
    /\ i \in 1..Len(wp_putters)
    /\ wp_putters' = RemoveAt(wp_putters, i)
    /\ jobs_failed' = jobs_failed + 1
    /\ jst' = [jst EXCEPT ![wp_putters[i]] = "rejected"]
    /\ UNCHANGED <<prog, otherThanWorkerPool, now,
                   wp_queue, wp_running, wp_pc, wp_job,
                   fut, jobs_received, jobs_processed, queue_size, active_workers,
                   downstream_errors, circuit_open, dsVars>>

\* _worker_loop: queue.get() returns a job; wait_for starts the downstream call.
wp_get(w) ==
    /\ prog = "worker_pool"
    /\ wp_pc[w] = "get"
    /\ wp_queue # <<>>
    /\ wp_queue' = Tail(wp_queue)
    /\ queue_size' = Len(wp_queue')
    /\ active_workers' = active_workers + 1
    /\ wp_job' = [wp_job EXCEPT ![w] = Head(wp_queue)]
    /\ jst' = [jst EXCEPT ![Head(wp_queue)] = "claimed"]
    /\ wp_pc' = [wp_pc EXCEPT ![w] = "call"]
    /\ UNCHANGED <<prog, otherThanWorkerPool, now,
                   wp_putters, wp_running, fut,
                   jobs_received, jobs_failed, jobs_processed, downstream_errors,
                   circuit_open, dsVars>>

\* _worker_loop, the end of an item: the finally block and the loop head. stop()
\* clears _running only while it cancels every worker, so a worker that gets
\* here finds it set.
WpAfterJob(w) ==
    /\ active_workers' = active_workers - 1
    /\ wp_job' = [wp_job EXCEPT ![w] = None]
    /\ ds_attempt' = [ds_attempt EXCEPT ![w] = 0]
    /\ ds_trial' = [ds_trial EXCEPT ![w] = FALSE]
    /\ wp_pc' = [wp_pc EXCEPT ![w] = IF wp_running THEN "get" ELSE "exited"]

\* Mutant: the error is counted but not set on the future.
JobFailed_silent(w, c) ==
    /\ jobs_failed' = jobs_failed + 1
    /\ downstream_errors' = downstream_errors + 1
    /\ circuit_open' = IF ds_is_open(c, now).open THEN 1 ELSE 0
    /\ cb' = ds_is_open(c, now).cb
    /\ jst' = [jst EXCEPT ![wp_job[w]] = "finished"]
    /\ WpAfterJob(w)
    /\ UNCHANGED <<jobs_processed, fut>>

\* _worker_loop, except Exception: the counters, the circuit_open gauge from
\* is_open() (which may reset the breaker c), and the error set on the future.
JobFailed(w, c) ==
    /\ jobs_failed' = jobs_failed + 1
    /\ downstream_errors' = downstream_errors + 1
    /\ circuit_open' = IF ds_is_open(c, now).open THEN 1 ELSE 0
    /\ cb' = ds_is_open(c, now).cb
    /\ fut' = [fut EXCEPT ![wp_job[w]] = "exception"]
    /\ jst' = [jst EXCEPT ![wp_job[w]] = "finished"]
    /\ WpAfterJob(w)
    /\ UNCHANGED jobs_processed

\* _worker_loop, the call returned: the result is set on the future.
JobDone(w) ==
    /\ jobs_processed' = jobs_processed + 1
    /\ fut' = [fut EXCEPT ![wp_job[w]] = "result"]
    /\ jst' = [jst EXCEPT ![wp_job[w]] = "finished"]
    /\ WpAfterJob(w)
    /\ UNCHANGED <<jobs_failed, downstream_errors, circuit_open, cb>>

\* DownstreamClient.call up to its first await: is_open() decides between
\* DownstreamError("circuit-open") and the first attempt.
wp_call(w) ==
    /\ prog = "worker_pool"
    /\ wp_pc[w] = "call"
    /\ LET r == ds_is_open(cb, now) IN
       IF r.open
       THEN JobFailed(w, r.cb)
       ELSE /\ cb' = r.cb
            /\ ds_trial' = [ds_trial EXCEPT ![w] = cb.opened_at # 0]
            /\ ds_attempt' = [ds_attempt EXCEPT ![w] = 1]
            /\ wp_pc' = [wp_pc EXCEPT ![w] = "do_call"]
            /\ UNCHANGED <<wp_job, fut, jst, wpMetricVars>>
    /\ UNCHANGED <<prog, otherThanWorkerPool, now,
                   wp_queue, wp_putters, wp_running,
                   jobs_received, queue_size, ds_retries, fail_threshold>>

\* DownstreamClient.call: an attempt (_do_call under wait_for) ends, with a
\* result or with an error or timeout, which is recorded before the jitter sleep.
wp_do_call_end(w, ok) ==
    /\ prog = "worker_pool"
    /\ wp_pc[w] = "do_call"
    /\ IF ok
       THEN JobDone(w)
       ELSE /\ cb' = ds_record_failure(cb, now)
            /\ ds_trial' = [ds_trial EXCEPT ![w] = FALSE]
            /\ wp_pc' = [wp_pc EXCEPT ![w] = "jitter"]
            /\ UNCHANGED <<wp_job, fut, jst, wpMetricVars, ds_attempt>>
    /\ UNCHANGED <<prog, otherThanWorkerPool, now,
                   wp_queue, wp_putters, wp_running,
                   jobs_received, queue_size, ds_retries, fail_threshold>>

\* DownstreamClient.call: the jitter sleep ends: the next attempt of
\* range(1, retries + 2), or the last error is raised to the worker.
wp_jitter_end(w) ==
    /\ prog = "worker_pool"
    /\ wp_pc[w] = "jitter"
    /\ IF ds_attempt[w] < ds_retries + 1
       THEN /\ ds_attempt' = [ds_attempt EXCEPT ![w] = ds_attempt[w] + 1]
            /\ wp_pc' = [wp_pc EXCEPT ![w] = "do_call"]
            /\ UNCHANGED <<wp_job, fut, jst, wpMetricVars, cb, ds_trial>>
       ELSE JobFailed(w, cb)
    /\ UNCHANGED <<prog, otherThanWorkerPool, now,
                   wp_queue, wp_putters, wp_running,
                   jobs_received, queue_size, ds_retries, fail_threshold>>

\* _worker_loop: wait_for's JOB_TIMEOUT cuts the call off where it is suspended;
\* the cancelled call records nothing and the worker handles TimeoutError.
wp_job_timeout(w) ==
    /\ prog = "worker_pool"
    /\ wp_pc[w] \in {"do_call", "jitter"}
    /\ JobFailed(w, cb)
    /\ UNCHANGED <<prog, otherThanWorkerPool, now,
                   wp_queue, wp_putters, wp_running,
                   jobs_received, queue_size, ds_retries, fail_threshold>>

NextWorkerPool ==
    \/ wp_start
    \/ wp_stop
    \/ wp_put_resume
    \/ Tick
    \/ \E j \in Jobs : wp_submit_nowait(j)
    \/ \E j \in Jobs : wp_submit_timed(j)
    \/ \E i \in 1..MaxJobs : wp_put_timeout(i)
    \/ \E w \in Workers : wp_get(w)
    \/ \E w \in Workers : wp_call(w)
    \/ \E w \in Workers : \E ok \in BOOLEAN : wp_do_call_end(w, ok)
    \/ \E w \in Workers : wp_jitter_end(w)
    \/ \E w \in Workers : wp_job_timeout(w)

SpecWorkerPool == InitWorkerPool /\ [][NextWorkerPool]_vars

\* --------------------------- tests/test_worker.py: the threaded WorkerPool
\* Threads interleave at every access to shared state, so each action below is
\* one such access (a queue operation, a locked block, a read of a shared
\* field) with the thread-local code around it. The queue_depth gauge is not
\* part of the model.
InitTestPool ==
    /\ prog = "test_pool"
    /\ now = 1
    /\ num_workers \in 1..NumWorkers
    /\ retry_limit \in 0..TpRetryLimit
    /\ cb_threshold \in 1..MaxThreshold
    /\ TestPoolIdle
    /\ tp_pc = [w \in Workers |-> IF w <= num_workers THEN "get" ELSE "none"]
    /\ WorkerIdle
    /\ WorkerPoolIdle
    /\ AppOff
    /\ CacheOff
    /\ BackoffOff
    /\ workers = 0
    /\ max_retries = 0
    /\ threshold = 1
    /\ ds_retries = 0
    /\ fail_threshold = 1

\* Mutant: the queue takes one item more than its maxsize.
TpFull_late(q) == TpMaxSize > 0 /\ Len(q) > TpMaxSize

\* queue.Queue.full()
TpFull(q) == TpMaxSize > 0 /\ Len(q) >= TpMaxSize

\* The next task of the test, and the task submit is working on.
NextTpTask(t) == tst[t] = "new" /\ \A u \in TpTasks : u < t => tst[u] # "new"
SubmitTask == CHOOSE t \in TpTasks : tst[t] = "checked"

\* Mutant: the gate closes one tick before cb_open_until.
TpCircuitOpen_early == now + 1 < cb_open_until

\* submit: now < self.cb_open_until.
TpCircuitOpen == now < cb_open_until

\* submit, the breaker gate: time.time() against cb_open_until.
tp_submit_check(t) ==
    /\ prog = "test_pool"
    /\ sub_pc = "idle"
    /\ NextTpTask(t)
    /\ IF TpCircuitOpen
       THEN /\ rejected' = rejected + 1
            /\ tst' = [tst EXCEPT ![t] = "rejected"]
            /\ UNCHANGED sub_pc
       ELSE /\ sub_pc' = "put"
            /\ tst' = [tst EXCEPT ![t] = "checked"]
            /\ UNCHANGED rejected
    /\ UNCHANGED <<prog, otherThanTestPool, now,
                   tp_queue, num_workers, shutdown_event, retry_limit, cb_threshold,
                   consecutive_failures, cb_open_until, tp_active_workers,
                   worker_occupied, tp_pc, tp_item, tp_val, tp_script, execs>>

\* submit, put_nowait: queue.Full is a rejection.
tp_submit_put ==
    /\ prog = "test_pool"
    /\ sub_pc = "put"
    /\ sub_pc' = "idle"
    /\ IF TpFull(tp_queue)
       THEN /\ rejected' = rejected + 1
            /\ tst' = [tst EXCEPT ![SubmitTask] = "rejected"]
            /\ UNCHANGED tp_queue
       ELSE /\ tp_queue' = Append(tp_queue, [task |-> SubmitTask, attempts |-> 0])
            /\ tst' = [tst EXCEPT ![SubmitTask] = "accepted"]
            /\ UNCHANGED rejected
    /\ UNCHANGED <<prog, otherThanTestPool, now,
                   num_workers, shutdown_event, retry_limit, cb_threshold,
                   consecutive_failures, cb_open_until, tp_active_workers,
                   worker_occupied, tp_pc, tp_item, tp_val, tp_script, execs>>

\* Mutant: get returns the head of the queue and leaves it there.
tp_get_peek(w) ==
    /\ prog = "test_pool"
    /\ tp_pc[w] = "get"
    /\ tp_queue # <<>>
    /\ tp_item' = [tp_item EXCEPT ![w] = Head(tp_queue)]
    /\ IF Head(tp_queue).attempts = 0
       THEN \E s \in 0..(retry_limit + 1) :
               tp_script' = [tp_script EXCEPT ![Head(tp_queue).task] = s]
       ELSE UNCHANGED tp_script
    /\ tp_pc' = [tp_pc EXCEPT ![w] = "inc_read"]
    /\ UNCHANGED <<prog, otherThanTestPool, now, tp_queue,
                   num_workers, shutdown_event, retry_limit, cb_threshold,
                   consecutive_failures, cb_open_until, tp_active_workers,
                   worker_occupied, rejected, tp_val, sub_pc, tst, execs>>

\* _worker_loop: queue.get(timeout=0.1) returns an item. The script of a task
\* is fixed when it is first taken: the failures of its function before its
\* first success (retry_limit + 1: every execution fails).
tp_get(w) ==
    /\ prog = "test_pool"
    /\ tp_pc[w] = "get"
    /\ tp_queue # <<>>
    /\ tp_queue' = Tail(tp_queue)
    /\ tp_item' = [tp_item EXCEPT ![w] = Head(tp_queue)]
    /\ IF Head(tp_queue).attempts = 0
       THEN \E s \in 0..(retry_limit + 1) :
               tp_script' = [tp_script EXCEPT ![Head(tp_queue).task] = s]
       ELSE UNCHANGED tp_script
    /\ tp_pc' = [tp_pc EXCEPT ![w] = "inc_read"]
    /\ UNCHANGED <<prog, otherThanTestPool, now,
                   num_workers, shutdown_event, retry_limit, cb_threshold,
                   consecutive_failures, cb_open_until, tp_active_workers,
                   worker_occupied, rejected, tp_val, sub_pc, tst, execs>>

\* _worker_loop: a thread whose get timed out (queue.Empty) is back at the loop
\* head and finds shutdown_event set.
tp_exit(w) ==
    /\ prog = "test_pool"
    /\ tp_pc[w] = "get"
    /\ shutdown_event
    /\ tp_pc' = [tp_pc EXCEPT ![w] = "exited"]
    /\ UNCHANGED <<prog, otherThanTestPool, now,
                   tp_queue, num_workers, shutdown_event, retry_limit, cb_threshold,
                   consecutive_failures, cb_open_until, tp_active_workers,
                   worker_occupied, rejected, tp_item, tp_val, sub_pc, tst,
                   tp_script, execs>>

Max(a, b) == IF a >= b THEN a ELSE b

\* _worker_loop: the argument of _set_worker_occupied is computed from a read
\* of _active_workers outside the lock.
tp_occupied_read(w) ==
    /\ prog = "test_pool"
    /\ tp_pc[w] \in {"inc_read", "dec_read"}
    /\ tp_val' = [tp_val EXCEPT ![w] = IF tp_pc[w] = "inc_read"
                                       THEN tp_active_workers + 1
                                       ELSE Max(0, tp_active_workers - 1)]
    /\ tp_pc' = [tp_pc EXCEPT ![w] = IF tp_pc[w] = "inc_read"
                                     THEN "inc_write" ELSE "dec_write"]
    /\ UNCHANGED <<prog, otherThanTestPool, now,
                   tp_queue, num_workers, shutdown_event, retry_limit, cb_threshold,
                   consecutive_failures, cb_open_until, tp_active_workers,
                   worker_occupied, rejected, tp_item, sub_pc, tst, tp_script, execs>>

\* _set_worker_occupied: the assignment under _active_lock.
tp_occupied_write(w) ==
    /\ prog = "test_pool"
    /\ tp_pc[w] \in {"inc_write", "dec_write"}
    /\ tp_active_workers' = tp_val[w]
    /\ tp_pc' = [tp_pc EXCEPT ![w] = IF tp_pc[w] = "inc_write"
                                     THEN "inc_gauge" ELSE "dec_gauge"]
    /\ UNCHANGED <<prog, otherThanTestPool, now,
                   tp_queue, num_workers, shutdown_event, retry_limit, cb_threshold,
                   consecutive_failures, cb_open_until,
                   worker_occupied, rejected, tp_item, tp_val, sub_pc, tst,
                   tp_script, execs>>

\* _set_worker_occupied: the gauge; the argument is dead afterwards. After the
\* first call the function of the item is called; after the second (in the
\* finally block) the thread is back at the loop head, where it tests
\* shutdown_event.
tp_occupied_gauge(w) ==
    /\ prog = "test_pool"
    /\ tp_pc[w] \in {"inc_gauge", "dec_gauge"}
    /\ worker_occupied' = tp_val[w]
    /\ tp_val' = [tp_val EXCEPT ![w] = 0]
    /\ IF tp_pc[w] = "inc_gauge"
       THEN /\ tp_pc' = [tp_pc EXCEPT ![w] = "run"]
            /\ execs' = [execs EXCEPT ![tp_item[w].task] = execs[tp_item[w].task] + 1]
            /\ UNCHANGED tp_item
       ELSE /\ tp_pc' = [tp_pc EXCEPT ![w] = IF shutdown_event THEN "exited" ELSE "get"]
            /\ tp_item' = [tp_item EXCEPT ![w] = NoItem]
            /\ UNCHANGED execs
    /\ UNCHANGED <<prog, otherThanTestPool, now,
                   tp_queue, num_workers, shutdown_event, retry_limit, cb_threshold,
                   consecutive_failures, cb_open_until, tp_active_workers,
                   rejected, sub_pc, tst, tp_script>>
\* The execution of an item's function fails while the script says so.
TpFails(it) == it.attempts + 1 <= tp_script[it.task]

\* _handle_item: func(payload) returns or raises. A success resets the failure
\* run; a failure counts the attempt, extends the run and, at cb_threshold,
\* opens the breaker for cb_reset_time from now; then the retry is decided.
tp_run_end(w) ==
    /\ prog = "test_pool"
    /\ tp_pc[w] = "run"
    /\ IF TpFails(tp_item[w])
       THEN /\ consecutive_failures' = consecutive_failures + 1
            /\ cb_open_until' = IF consecutive_failures + 1 >= cb_threshold
                                THEN now + ResetTimeout ELSE cb_open_until
            /\ tp_item' = [tp_item EXCEPT ![w].attempts = tp_item[w].attempts + 1]
            /\ tp_pc' = [tp_pc EXCEPT ![w] =
                            IF tp_item[w].attempts + 1 <= retry_limit
                            THEN "sleep" ELSE "give_up"]
            /\ UNCHANGED tst
       ELSE /\ consecutive_failures' = 0
            /\ tst' = [tst EXCEPT ![tp_item[w].task] = "done"]
            /\ tp_pc' = [tp_pc EXCEPT ![w] = "dec_read"]
            /\ UNCHANGED <<cb_open_until, tp_item>>
    /\ UNCHANGED <<prog, otherThanTestPool, now,
                   tp_queue, num_workers, shutdown_event, retry_limit, cb_threshold,
                   tp_active_workers, worker_occupied, rejected, tp_val, sub_pc,
                   tp_script, execs>>

\* _handle_item: after the backoff sleep the item is put back with put_nowait;
\* on queue.Full it is given up.
tp_requeue(w) ==
    /\ prog = "test_pool"
    /\ tp_pc[w] = "sleep"
    /\ IF TpFull(tp_queue)
       THEN /\ tp_pc' = [tp_pc EXCEPT ![w] = "give_up"]
            /\ UNCHANGED tp_queue
       ELSE /\ tp_queue' = Append(tp_queue, tp_item[w])
            /\ tp_pc' = [tp_pc EXCEPT ![w] = "dec_read"]
    /\ UNCHANGED <<prog, otherThanTestPool, now,
                   num_workers, shutdown_event, retry_limit, cb_threshold,
                   consecutive_failures, cb_open_until, tp_active_workers,
                   worker_occupied, rejected, tp_item, tp_val, sub_pc, tst,
                   tp_script, execs>>

\* Mutant: an item that is not retried is given up without being counted.
tp_give_up_silent(w) ==
    /\ prog = "test_pool"
    /\ tp_pc[w] = "give_up"
    /\ tst' = [tst EXCEPT ![tp_item[w].task] =
                  IF tp_item[w].attempts <= retry_limit THEN "dropped" ELSE "exhausted"]
    /\ tp_pc' = [tp_pc EXCEPT ![w] = "dec_read"]
    /\ UNCHANGED <<prog, otherThanTestPool, now, rejected,
                   tp_queue, num_workers, shutdown_event, retry_limit, cb_threshold,
                   consecutive_failures, cb_open_until, tp_active_workers,
                   worker_occupied, tp_item, tp_val, sub_pc, tp_script, execs>>

\* _handle_item: metrics.incr("rejected") for an item that is not retried:
\* its retries are exhausted, or it could not be put back.
tp_give_up(w) ==
    /\ prog = "test_pool"
    /\ tp_pc[w] = "give_up"
    /\ rejected' = rejected + 1
    /\ tst' = [tst EXCEPT ![tp_item[w].task] =
                  IF tp_item[w].attempts <= retry_limit THEN "dropped" ELSE "exhausted"]
    /\ tp_pc' = [tp_pc EXCEPT ![w] = "dec_read"]
    /\ UNCHANGED <<prog, otherThanTestPool, now,
                   tp_queue, num_workers, shutdown_event, retry_limit, cb_threshold,
                   consecutive_failures, cb_open_until, tp_active_workers,
                   worker_occupied, tp_item, tp_val, sub_pc, tp_script, execs>>

\* shutdown(): the event is set; the joins that follow change no state. The
\* test calls it once, after its submissions.
tp_shutdown ==
    /\ prog = "test_pool"
    /\ ~shutdown_event
    /\ \A t \in TpTasks : tst[t] \notin {"new", "checked"}
    /\ shutdown_event' = TRUE
    /\ UNCHANGED <<prog, otherThanTestPool, now,
                   tp_queue, num_workers, retry_limit, cb_threshold,
                   consecutive_failures, cb_open_until, tp_active_workers,
                   worker_occupied, rejected, tp_pc, tp_item, tp_val, sub_pc, tst,
                   tp_script, execs>>

NextTestPool ==
    \/ tp_submit_put
    \/ tp_shutdown
    \/ Tick
    \/ \E t \in TpTasks : tp_submit_check(t)
    \/ \E w \in Workers : tp_get(w)
    \/ \E w \in Workers : tp_exit(w)
    \/ \E w \in Workers : tp_occupied_read(w)
    \/ \E w \in Workers : tp_occupied_write(w)
    \/ \E w \in Workers : tp_occupied_gauge(w)
    \/ \E w \in Workers : tp_run_end(w)
    \/ \E w \in Workers : tp_requeue(w)
    \/ \E w \in Workers : tp_give_up(w)

SpecTestPool == InitTestPool /\ [][NextTestPool]_vars

\* ------------------------- app/worker.py: the delays of _process_with_retries
\* One worker's _process_with_retries, observed for the delays it sleeps. The
\* handler's outcome is free; the breaker plays no part in the delay.

\* The other programs, when they are not the one that runs.
WorkerOff == WorkerIdle /\ workers = 0 /\ max_retries = 0 /\ threshold = 1

WorkerPoolOff == WorkerPoolIdle /\ ds_retries = 0 /\ fail_threshold = 1

TestPoolOff ==
    /\ TestPoolIdle
    /\ num_workers = 0
    /\ tp_pc = [w \in Workers |-> "none"]
    /\ retry_limit = 0
    /\ cb_threshold = 1

\* A delay is an integer number of 1/Scale of the unit of backoff_base, so that
\* the factors 0.8 + random() * 0.4 are exact.
Scale == 10 * JitterSteps

InitBackoff ==
    /\ prog = "backoff"
    /\ now = 1
    /\ bo_max_retries \in 0..BoMaxRetries
    /\ backoff_base \in 1..MaxBase
    /\ bo_attempt = 0
    /\ bo_slept = <<>>
    /\ bo_pc = "idle"
    /\ WorkerOff
    /\ WorkerPoolOff
    /\ TestPoolOff
    /\ AppOff
    /\ CacheOff

\* Mutant: the delay grows linearly with the attempt.
Nominal_linear(b, a) == b * a

\* backoff = self.backoff_base * (2 ** (attempt - 1))
Nominal(b, a) == b * 2^(a - 1)

\* backoff = backoff * (0.8 + random.random() * 0.4), with random() = r / JitterSteps,
\* in units of 1/Scale.
Jittered(n, r) == n * (8 * JitterSteps + 4 * r)

\* _worker_loop took a payload: attempt = 0, the loop head, attempt += 1, and the
\* handler is awaited.
bo_begin ==
    /\ prog = "backoff"
    /\ bo_pc = "idle"
    /\ bo_attempt' = 1
    /\ bo_slept' = <<>>
    /\ bo_pc' = "attempt"
    /\ UNCHANGED <<prog, otherThanBackoff, now, bo_max_retries, backoff_base>>

\* The handler returned, or raised CircuitOpenError: return.
bo_return ==
    /\ prog = "backoff"
    /\ bo_pc = "attempt"
    /\ bo_pc' = "idle"
    /\ UNCHANGED <<prog, otherThanBackoff, now, bo_max_retries, backoff_base,
                   bo_attempt, bo_slept>>

\* except Exception: return after the last attempt, else sleep the backoff.
bo_error(r) ==
    /\ prog = "backoff"
    /\ bo_pc = "attempt"
    /\ IF bo_attempt > bo_max_retries
       THEN /\ bo_pc' = "idle"
            /\ UNCHANGED bo_slept
       ELSE /\ bo_slept' = Append(bo_slept,
                    [attempt |-> bo_attempt,
                     backoff |-> Nominal(backoff_base, bo_attempt),
                     slept |-> Jittered(Nominal(backoff_base, bo_attempt), r)])
            /\ bo_pc' = "sleep"
    /\ UNCHANGED <<prog, otherThanBackoff, now, bo_max_retries, backoff_base, bo_attempt>>

\* asyncio.sleep(backoff) returns: the loop head holds, attempt += 1.
bo_sleep_done ==
    /\ prog = "backoff"
    /\ bo_pc = "sleep"
    /\ bo_attempt' = bo_attempt + 1
    /\ bo_pc' = "attempt"
    /\ UNCHANGED <<prog, otherThanBackoff, now, bo_max_retries, backoff_base, bo_slept>>

NextBackoff ==
    \/ bo_begin
    \/ bo_return
    \/ \E r \in 0..(JitterSteps - 1) : bo_error(r)
    \/ bo_sleep_done

SpecBackoff == InitBackoff /\ [][NextBackoff]_vars

\* ------------------------- app/worker.py: the CircuitBreaker on its own
\* A CircuitBreaker(threshold, reset_timeout) whose three methods are called in
\* any order, at any time.
InitBreaker ==
    /\ prog = "breaker"
    /\ now = 1
    /\ WorkerIdle
    /\ workers = 0
    /\ max_retries = 0
    /\ threshold \in 1..MaxThreshold
    /\ WorkerPoolOff
    /\ TestPoolOff
    /\ AppOff
    /\ CacheOff
    /\ BackoffOff

\* What a call to the breaker leaves alone.
otherThanCircuit ==
    <<prog, now, otherThanWorker, poolVars, threshold, metricVars, taskVars, histVars,
      queuedAtStop>>

call_record_failure ==
    /\ prog = "breaker"
    /\ circuit.failures < MaxFailures
    /\ circuit' = record_failure(circuit, now)
    /\ UNCHANGED otherThanCircuit

call_record_success ==
    /\ prog = "breaker"
    /\ circuit' = record_success(circuit)
    /\ UNCHANGED otherThanCircuit

call_is_open ==
    /\ prog = "breaker"
    /\ circuit' = is_open(circuit, now).cb
    /\ UNCHANGED otherThanCircuit

NextBreaker ==
    \/ Tick
    \/ call_record_failure
    \/ call_record_success
    \/ call_is_open

SpecBreaker == InitBreaker /\ [][NextBreaker]_vars

\* ------------------------------------------------------- app/cache.py
\* One TTLCache and concurrent get_or_set calls for one key. A value is "v", the
\* loader's None is "none". _global_lock is never held across a suspension, so
\* its acquire never suspends and its blocks are parts of a step. A lock bears
\* the name of the call that created it.
InitCache ==
    /\ prog = "cache"
    /\ now = 1
    /\ CacheOff
    /\ WorkerOff
    /\ WorkerPoolOff
    /\ TestPoolOff
    /\ AppOff
    /\ BackoffOff

\* get(key): the value, or "none" for a missing entry, an expired entry (which
\* is removed) or a stored None; with the entry as get leaves it.
CacheGet(d, t) ==
    IF d = NoData THEN [val |-> "none", data |-> d]
    ELSE IF d.exp < t THEN [val |-> "none", data |-> NoData]
    ELSE [val |-> d.val, data |-> d]

\* Leaving `async with lock`: release() wakes the oldest waiter, which owns the
\* lock from here on (later callers queue behind it).
CacheRelease(l) ==
    IF ca_waiters[l] = <<>>
    THEN /\ ca_holder' = [ca_holder EXCEPT ![l] = 0]
         /\ UNCHANGED ca_waiters
    ELSE /\ ca_holder' = [ca_holder EXCEPT ![l] = Head(ca_waiters[l])]
         /\ ca_waiters' = [ca_waiters EXCEPT ![l] = Tail(ca_waiters[l])]

\* get_or_set up to its first suspension: the fast path, the lookup or creation
\* of the per-key lock, and acquire, which returns at once when the lock is free
\* and then leads through the second get to the loader.
ca_call(c) ==
    /\ prog = "cache"
    /\ ca_pc[c] = "idle"
    /\ LET g == CacheGet(ca_data, now)
           l == IF ca_locks = 0 THEN c ELSE ca_locks
       IN /\ ca_data' = g.data
          /\ IF g.val # "none"
             THEN /\ ca_pc' = [ca_pc EXCEPT ![c] = "done"]
                  /\ UNCHANGED <<ca_locks, ca_holder, ca_waiters, ca_lock>>
             ELSE /\ ca_locks' = l
                  /\ ca_lock' = [ca_lock EXCEPT ![c] = l]
                  /\ IF ca_holder[l] = 0
                     THEN /\ ca_holder' = [ca_holder EXCEPT ![l] = c]
                          /\ ca_pc' = [ca_pc EXCEPT ![c] = "loading"]
                          /\ UNCHANGED ca_waiters
                     ELSE /\ ca_waiters' = [ca_waiters EXCEPT ![l] = Append(ca_waiters[l], c)]
                          /\ ca_pc' = [ca_pc EXCEPT ![c] = "wait"]
                          /\ UNCHANGED ca_holder
    /\ UNCHANGED <<prog, otherThanCache, now>>

\* A call that waited for the lock runs again, as its owner: the second get,
\* then the return of a cached value or the loader.
ca_resume(c) ==
    /\ prog = "cache"
    /\ ca_pc[c] = "wait"
    /\ ca_holder[ca_lock[c]] = c
    /\ LET g == CacheGet(ca_data, now) IN
          /\ ca_data' = g.data
          /\ IF g.val # "none"
             THEN /\ ca_pc' = [ca_pc EXCEPT ![c] = "done"]
                  /\ CacheRelease(ca_lock[c])
             ELSE /\ ca_pc' = [ca_pc EXCEPT ![c] = "loading"]
                  /\ UNCHANGED <<ca_holder, ca_waiters>>
    /\ UNCHANGED <<prog, otherThanCache, now, ca_locks, ca_lock>>

\* The loader returns v: set(key, v, ttl), self._locks.pop(key, None), return.
ca_loaded(c, v) ==
    /\ prog = "cache"
    /\ ca_pc[c] = "loading"
    /\ ca_data' = [exp |-> now + CacheTtl, val |-> v]
    /\ ca_locks' = 0
    /\ ca_pc' = [ca_pc EXCEPT ![c] = "done"]
    /\ CacheRelease(ca_lock[c])
    /\ UNCHANGED <<prog, otherThanCache, now, ca_lock>>

\* The loader raises: the exception leaves `async with lock` before set and
\* before the pop of self._locks.
ca_loader_raises(c) ==
    /\ prog = "cache"
    /\ ca_pc[c] = "loading"
    /\ ca_pc' = [ca_pc EXCEPT ![c] = "done"]
    /\ CacheRelease(ca_lock[c])
    /\ UNCHANGED <<prog, otherThanCache, now, ca_data, ca_locks, ca_lock>>

NextCache ==
    \/ Tick
    \/ \E c \in Callers : ca_call(c)
    \/ \E c \in Callers : ca_resume(c)
    \/ \E c \in Callers : \E v \in {"v", "none"} : ca_loaded(c, v)
    \/ \E c \in Callers : ca_loader_raises(c)

SpecCache == InitCache /\ [][NextCache]_vars

\* ------------------------------------------------------- app/__init__.py
\* The FastAPI application with its module-level queue, results and _cb. The
\* startup handler has run: every worker_loop is suspended in queue.get().
InitApp ==
    /\ prog = "app"
    /\ now = 1
    /\ AppIdle
    /\ ap_pc = [w \in Workers |-> "get"]
    /\ WorkerIdle
    /\ workers = 0
    /\ max_retries = 0
    /\ threshold = 1
    /\ WorkerPoolIdle
    /\ ds_retries = 0
    /\ fail_threshold = 1
    /\ TestPoolIdle
    /\ num_workers = 0
    /\ tp_pc = [w \in Workers |-> "none"]
    /\ retry_limit = 0
    /\ cb_threshold = 1
    /\ BackoffOff
    /\ CacheOff

\* The queue of app/__init__.py is full.
ApFull(q) == Len(q) >= QUEUE_MAXSIZE

\* The test of _cb both submit and simulated_downstream make.
ApCircuitOpen == ap_cb.open_until > now

\* Mutant: the queue-full rejection answers like the circuit-open one.
backlog_full_same ==
    [status |-> 503, retry_after |-> RETRY_AFTER_SEC,
     detail |-> "service temporarily unavailable", id |-> None]

\* submit: the three responses.
unavailable ==
    [status |-> 503, retry_after |-> RETRY_AFTER_SEC,
     detail |-> "service temporarily unavailable", id |-> None]

backlog_full ==
    [status |-> 503, retry_after |-> RETRY_AFTER_SEC, detail |-> "backlog full", id |-> None]

accepted(id) == [status |-> 202, retry_after |-> 0, detail |-> "accepted", id |-> id]

\* The next request of the clients; uuid4 gives request r the id r.
NextReq(r) ==
    response[r] = NoResponse /\ \A u \in Reqs : u < r => response[u] # NoResponse

\* POST /process: the whole handler, which has no await.
ap_submit(r) ==
    /\ prog = "app"
    /\ NextReq(r)
    /\ IF ApCircuitOpen
       THEN /\ response' = [response EXCEPT ![r] = unavailable]
            /\ UNCHANGED <<ap_queue, results>>
       ELSE IF ApFull(ap_queue)
       THEN /\ response' = [response EXCEPT ![r] = backlog_full]
            /\ UNCHANGED <<ap_queue, results>>
       ELSE /\ ap_queue' = Append(ap_queue, r)
            /\ results' = [results EXCEPT ![r] = [status |-> "queued", result |-> FALSE]]
            /\ response' = [response EXCEPT ![r] = accepted(r)]
    /\ UNCHANGED <<prog, otherThanApp, now, ap_cb, ap_pc, ap_item, ap_attempt>>

\* GET /result/{id}: the entry, or 404.
get_result(id) ==
    IF results[id] = NoEntry THEN [status |-> "not found", result |-> FALSE] ELSE results[id]

\* worker_loop: queue.get() returns an item; process_item marks it processing
\* and enters its loop, where wait_for starts simulated_downstream.
ap_get(w) ==
    /\ prog = "app"
    /\ ap_pc[w] = "get"
    /\ ap_queue # <<>>
    /\ ap_queue' = Tail(ap_queue)
    /\ ap_item' = [ap_item EXCEPT ![w] = Head(ap_queue)]
    /\ results' = [results EXCEPT ![Head(ap_queue)] = [status |-> "processing", result |-> FALSE]]
    /\ ap_attempt' = [ap_attempt EXCEPT ![w] = 1]
    /\ ap_pc' = [ap_pc EXCEPT ![w] = "call"]
    /\ UNCHANGED <<prog, otherThanApp, now, ap_cb, response>>

\* process_item, except Exception: the failure is counted, at the threshold the
\* breaker is opened, and the backoff sleep starts.
ApFail(w) ==
    /\ ap_cb' = [failures |-> ap_cb.failures + 1,
                 open_until |-> IF ap_cb.failures + 1 >= CB_FAILURE_THRESHOLD
                                THEN now + CB_OPEN_SECONDS
                                ELSE ap_cb.open_until]
    /\ ap_pc' = [ap_pc EXCEPT ![w] = "backoff"]
    /\ UNCHANGED <<ap_queue, results, ap_item, ap_attempt>>

\* worker_loop after process_item returned: task_done and back to queue.get().
ApAfterItem(w) ==
    /\ ap_item' = [ap_item EXCEPT ![w] = None]
    /\ ap_attempt' = [ap_attempt EXCEPT ![w] = 0]
    /\ ap_pc' = [ap_pc EXCEPT ![w] = "get"]

\* simulated_downstream up to its first await: RuntimeError("circuit-open")
\* while the breaker is open, else the latency sleep.
ap_call(w) ==
    /\ prog = "app"
    /\ ap_pc[w] = "call"
    /\ IF ApCircuitOpen
       THEN ApFail(w)
       ELSE /\ ap_pc' = [ap_pc EXCEPT ![w] = "latency"]
            /\ UNCHANGED <<ap_queue, results, ap_cb, ap_item, ap_attempt>>
    /\ UNCHANGED <<prog, otherThanApp, now, response>>

\* Mutant: the entry of a finished task says queued again.
DoneEntry_queued == [status |-> "queued", result |-> TRUE]

\* Mutant: the entry of a finished task carries no result.
DoneEntry_bare == [status |-> "done", result |-> FALSE]

\* process_item: the entry of a task whose attempt returned res.
DoneEntry == [status |-> "done", result |-> TRUE]

\* The attempt ends: the reversed payload, which process_item stores while it
\* resets the failure count, or downstream-failure (or TASK_TIMEOUT).
ap_latency_end(w, ok) ==
    /\ prog = "app"
    /\ ap_pc[w] = "latency"
    /\ IF ok
       THEN /\ results' = [results EXCEPT ![ap_item[w]] = DoneEntry]
            /\ ap_cb' = [ap_cb EXCEPT !.failures = 0]
            /\ ApAfterItem(w)
            /\ UNCHANGED ap_queue
       ELSE ApFail(w)
    /\ UNCHANGED <<prog, otherThanApp, now, response>>

\* Mutant: process_item gives up after two attempts.
ap_backoff_end_two(w) ==
    /\ prog = "app"
    /\ ap_pc[w] = "backoff"
    /\ IF ap_attempt[w] < 2
       THEN /\ ap_attempt' = [ap_attempt EXCEPT ![w] = ap_attempt[w] + 1]
            /\ ap_pc' = [ap_pc EXCEPT ![w] = "call"]
            /\ UNCHANGED <<results, ap_item>>
       ELSE /\ results' = [results EXCEPT ![ap_item[w]] = [status |-> "failed", result |-> FALSE]]
            /\ ApAfterItem(w)
    /\ UNCHANGED <<prog, otherThanApp, now, ap_queue, ap_cb, response>>

\* The backoff sleep ends: the next attempt while attempt < 3, else the entry
\* becomes failed.
ap_backoff_end(w) ==
    /\ prog = "app"
    /\ ap_pc[w] = "backoff"
    /\ IF ap_attempt[w] < MaxAttempts
       THEN /\ ap_attempt' = [ap_attempt EXCEPT ![w] = ap_attempt[w] + 1]
            /\ ap_pc' = [ap_pc EXCEPT ![w] = "call"]
            /\ UNCHANGED <<results, ap_item>>
       ELSE /\ results' = [results EXCEPT ![ap_item[w]] = [status |-> "failed", result |-> FALSE]]
            /\ ApAfterItem(w)
    /\ UNCHANGED <<prog, otherThanApp, now, ap_queue, ap_cb, response>>

NextApp ==
    \/ Tick
    \/ \E r \in Reqs : ap_submit(r)
    \/ \E w \in Workers : ap_get(w)
    \/ \E w \in Workers : ap_call(w)
    \/ \E w \in Workers : \E ok \in BOOLEAN : ap_latency_end(w, ok)
    \/ \E w \in Workers : ap_backoff_end(w)

SpecApp == InitApp /\ [][NextApp]_vars


\* --------------------------------------------------------- app/api.py
\* process: the response to POST /process for job j, from what pool.submit did:
\* QueueFullError becomes 429 with Retry-After, a returned job id 202.
too_many_requests ==
    [status |-> 429, retry_after |-> 1, detail |-> "queue full", id |-> None]

process(j) ==
    IF jst[j] = "rejected" THEN too_many_requests
    ELSE IF jst[j] \in {"new", "waiting"} THEN NoResponse
    ELSE [status |-> 202, retry_after |-> 0, detail |-> "", id |-> j]

\* process, the handler of POST /process for job j, up to its suspension in
\* pool.submit: metric_jobs_received.inc(), then submit(payload,
\* timeout=ENQUEUE_TIMEOUT), which increments the counter itself and suspends in
\* wait_for(queue.put(...)). Requests are served between startup_event
\* (pool.start) and shutdown_event (pool.stop).
api_process(j) ==
    /\ prog = "worker_pool"
    /\ wp_running
    /\ NextJob(j)
    /\ jobs_received' = (jobs_received + 1) + 1
    /\ fut' = [fut EXCEPT ![j] = "pending"]
    /\ wp_putters' = Append(wp_putters, j)
    /\ jst' = [jst EXCEPT ![j] = "waiting"]
    /\ UNCHANGED <<prog, otherThanWorkerPool, now,
                   wp_queue, wp_running, wp_pc, wp_job,
                   jobs_failed, jobs_processed, queue_size, active_workers,
                   downstream_errors, circuit_open, dsVars>>

\* The service of app/api.py: its pool takes jobs from POST /process only.
NextApi ==
    \/ wp_start
    \/ wp_stop
    \/ wp_put_resume
    \/ Tick
    \/ \E j \in Jobs : api_process(j)
    \/ \E i \in 1..MaxJobs : wp_put_timeout(i)
    \/ \E w \in Workers : wp_get(w)
    \/ \E w \in Workers : wp_call(w)
    \/ \E w \in Workers : \E ok \in BOOLEAN : wp_do_call_end(w, ok)
    \/ \E w \in Workers : wp_jitter_end(w)
    \/ \E w \in Workers : wp_job_timeout(w)

SpecApi == InitWorkerPool /\ [][NextApi]_vars

\* The two pools that retry: app/worker.py inside the worker, the threaded pool
\* by re-enqueueing.
InitPools == InitWorker \/ InitTestPool

NextPools == NextWorker \/ NextTestPool

SpecPools == InitPools /\ [][NextPools]_vars

\* The two services that answer POST /process.
InitService == InitApp \/ InitWorkerPool

NextService == NextApp \/ NextWorkerPool

SpecService == InitService /\ [][NextService]_vars

\* ------------------------------------------------------ the repository
\* One of the programs of the repository runs.
Init == InitWorker \/ InitWorkerPool

Next == NextWorker \/ NextWorkerPool

Spec == Init /\ [][Next]_vars

\* ====================================================================
\* Properties
\* ====================================================================

\* A task the pool gave up.
GivenUp(t) == st[t] \in {"failed", "circuit_open", "unrecorded"}

\* The breaker holds a window that has not elapsed.
WindowRunning == circuit.opened_at # None /\ now - circuit.opened_at < ResetTimeout

\* Worker w starts an attempt in this step / ends its downstream wait in this step.
StartsAttempt(w) == pc[w] = "attempt" /\ pc'[w] # "attempt"
EndsWrite(w) == pc[w] = "write" /\ pc'[w] # "write"

\* C1: neither the queue of app/worker.py nor the queue of app/worker_pool.py
\* ever holds more than maxsize items, whatever submits, dequeues and sentinel
\* puts have happened.
C1_QueueBounded == Len(queue) <= MaxSize /\ Len(wp_queue) <= MaxSize

C1_Witness ==
    /\ Len(queue) = MaxSize
    /\ stop_pc = "putting"
    /\ REJECTED > 0
    /\ \E i \in 1..Len(putters) : putters[i].task # None

\* C2, as claimed: every task whose handler failed on every invocation was given
\* up after exactly max_retries + 1 invocations, whatever the breaker did.
C2_Original == \A t \in Tasks : GivenUp(t) => calls[t] = max_retries + 1

\* C2, amended: a task whose every invocation failed with an error other than
\* CircuitOpenError is given up after exactly max_retries + 1 invocations; no
\* task is invoked more often, and the only task given up earlier is one whose
\* last invocation raised CircuitOpenError.
C2_ExactAttempts ==
    \A t \in Tasks :
        /\ calls[t] <= max_retries + 1
        /\ st[t] = "failed" => calls[t] = max_retries + 1
        /\ GivenUp(t) => st[t] \in {"failed", "circuit_open"}
        /\ st[t] = "claimed" => \E w \in Workers : item[w] = t /\ pc[w] # "get"

C2_Witness ==
    \E t \in Tasks : st[t] = "failed" /\ max_retries = MaxRetries /\ calls[t] = MaxRetries + 1

\* C3, as claimed (its safety part): a task is never given up while fewer than
\* max_retries + 1 of its handler invocations have failed.
C3_Original == \A t \in Tasks : GivenUp(t) => calls[t] > max_retries

\* C3, amended: while the pool is running, every accepted task whose downstream
\* operation fails fewer than max_retries + 1 times and then succeeds eventually
\* completes successfully, unless one of its attempts meets the open circuit
\* (CircuitOpenError), which gives it up; each success is recorded exactly once.
C3_EventuallyDone ==
    /\ \A t \in Tasks :
          (st[t] = "queued") ~>
              \/ st[t] = "done"
              \/ st[t] = "circuit_open"
              \/ st[t] = "failed" /\ script[t] > max_retries
    /\ [](PROCESS_SUCCESS = Cardinality({t \in Tasks : st[t] = "done"}))
    /\ [][\A t \in Tasks : st[t] = "done" => st'[t] = "done"]_vars

C3_Witness ==
    \E t \in Tasks : st[t] = "done" /\ calls[t] = max_retries + 1 /\ max_retries > 0

\* C4: an attempt that meets the open circuit ends the task at once: the error
\* is counted, the worker goes back to the queue (or exits) without a backoff
\* sleep, and the task is never attempted again.
C4_CircuitOpenTerminal ==
    /\ [][\A w \in Workers :
            (StartsAttempt(w) /\ WindowRunning) =>
                /\ st'[item[w]] = "circuit_open"
                /\ PROCESS_ERRORS' = PROCESS_ERRORS + 1
                /\ pc'[w] \in {"get", "exited"}]_vars
    /\ [][\A t \in Tasks :
            st[t] = "circuit_open" => st'[t] = "circuit_open" /\ calls'[t] = calls[t]]_vars

C4_Witness == \E t \in Tasks : st[t] = "circuit_open" /\ calls[t] > 1

\* C5: the failure that makes threshold consecutive failures (counted since the
\* last success, or since the breaker was last closed) opens the breaker with
\* opened_at at the time of that failure; the breaker opens at no other step,
\* and it is never open after fewer than threshold failures since it was last
\* closed.
C5_OpensAtThreshold ==
    /\ [][(consec = threshold - 1 /\ consec' = threshold) =>
              circuit'.opened_at = now /\ circuit.opened_at = None]_vars
    /\ [][(sinceClosed = threshold - 1 /\ sinceClosed' = threshold) =>
              circuit'.opened_at = now /\ circuit.opened_at = None]_vars
    /\ [][(circuit.opened_at = None /\ circuit'.opened_at # None) =>
              circuit'.opened_at = now /\ sinceClosed' = threshold]_vars
    /\ [](circuit.opened_at # None => sinceClosed >= threshold)

C5_Witness ==
    /\ threshold > 1
    /\ consec = threshold
    /\ circuit.opened_at = threshAt
    /\ threshAt # None

\* C6, as claimed: once threshold consecutive calls have failed, no call started
\* before the cooldown window of that failure has elapsed performs the
\* downstream operation.
C6_Original ==
    [][\A w \in Workers :
          (threshAt # None /\ now - threshAt < ResetTimeout /\ StartsAttempt(w)) =>
              pc'[w] # "write"]_vars

\* C7, as claimed: while the breaker is open no step increments its failure counter.
C7_Original == [][circuit.opened_at # None => circuit'.failures <= circuit.failures]_vars

\* C8, as claimed: while the window of an open breaker has not elapsed no step
\* closes the breaker.
C8_Original == [][WindowRunning => circuit'.opened_at = circuit.opened_at]_vars

\* C9: a call made when the window of the open breaker has elapsed goes to the
\* downstream operation, and when that trial call succeeds the breaker is closed
\* with a failure counter of zero.
C9_TrialAllowed ==
    [][\A w \in Workers :
          /\ (StartsAttempt(w) /\ circuit.opened_at # None
                 /\ now - circuit.opened_at >= ResetTimeout) =>
                 pc'[w] = "write" /\ trial'[w]
          /\ (EndsWrite(w) /\ trial[w] /\ st'[item[w]] = "done") =>
                 circuit'.opened_at = None /\ circuit'.failures = 0]_vars

C9_Witness == trialResult = "succeeded" /\ circuit.failures = 0 /\ circuit.opened_at = None

\* C10, as claimed, for the breaker of app/worker.py: when the trial call fails,
\* that single failure opens the breaker again with opened_at at the time of the
\* failure.
C10_Worker ==
    \A w \in Workers :
        (EndsWrite(w) /\ trial[w] /\ st'[item[w]] # "done") => circuit'.opened_at = now

\* C10, as claimed, for the breaker of app/downstream.py: the first failed
\* attempt of the trial call opens the breaker again at the time of the failure.
C10_Downstream ==
    \A w \in Workers :
        (wp_pc[w] = "do_call" /\ ds_trial[w] /\ wp_pc'[w] = "jitter") =>
            cb'.opened_at = now

\* C10, as claimed, for both breakers.
C10_Original == [][C10_Worker /\ C10_Downstream]_vars

\* Each breaker alone fails C10: under SpecWorker and under SpecWorkerPool.
C10_OnlyWorker == [][C10_Worker]_vars

C10_OnlyDownstream == [][C10_Downstream]_vars

\* C11, as claimed: while the call let through after the cooldown is still in
\* its downstream wait (its outcome not yet recorded in the breaker), no other
\* worker's call reaches the downstream operation.
C11_Original ==
    [][\A w \in Workers :
          (StartsAttempt(w) /\ \E v \in Workers \ {w} : trial[v] /\ pc[v] = "write") =>
              pc'[w] # "write"]_vars

\* C12, as claimed: every call to submit returns, whatever its block and timeout
\* arguments and whether or not a worker frees queue space: no submission stays
\* suspended in queue.put for ever.
C12_Original == \A t \in Tasks : (st[t] = "waiting") ~> (st[t] # "waiting")

\* C12, the modes that do return: a timed blocking submit that is suspended.
C12_TimedReturns ==
    \A t \in Tasks :
        (\E i \in 1..Len(putters) : putters[i].task = t /\ putters[i].timed)
            ~> (st[t] \in {"queued", "rejected"})

\* C13: a non-blocking submit is accepted, and its payload appended to the
\* queue, exactly when the queue holds fewer than maxsize items at the call;
\* otherwise it is rejected, the queue is left as it was and the rejection is
\* counted. Nothing else decides: not the occupied-worker count, not the
\* suspended puts, not the breaker.
C13_NonBlockingSubmit ==
    [][\A t \in Tasks :
          (st[t] = "new" /\ st'[t] \notin {"new", "waiting"}) =>
              IF Len(queue) < MaxSize
              THEN st'[t] = "queued" /\ queue' = Append(queue, t) /\ REJECTED' = REJECTED
              ELSE st'[t] = "rejected" /\ queue' = queue /\ REJECTED' = REJECTED + 1]_vars

\* A submission was rejected while no worker was occupied, another accepted.
C13_Witness ==
    /\ \E t \in Tasks : st[t] = "rejected"
    /\ \E t \in Tasks : st[t] = "queued"
    /\ REJECTED = 1
    /\ occupied = 0
    /\ putters = <<>>

\* The worker threads of the threaded pool, and the accepted tasks that have
\* not reached a terminal outcome.
TpWorkers == 1..num_workers
TpPending == {t \in TpTasks : tst[t] = "accepted"}
TpQueued == {tp_queue[i].task : i \in 1..Len(tp_queue)}
TpHeld == {tp_item[w].task : w \in {v \in TpWorkers : tp_pc[v] \notin {"get", "exited"}}}

C15_Fifo ==
    /\ [][\A t \in Tasks :
            /\ (st[t] # "queued" /\ st'[t] = "queued") => queue' = Append(queue, t)
            /\ (st[t] = "queued" /\ st'[t] # "queued") =>
                  /\ queue # <<>> /\ Head(queue) = t /\ queue' = Tail(queue)
                  /\ st'[t] = "claimed"
                  /\ \E w \in Workers : pc[w] = "get" /\ item'[w] = t]_vars
    /\ [][queue' # queue =>
            \/ queue # <<>> /\ queue' = Tail(queue)
            \/ \E t \in Tasks : queue' = Append(queue, t)
            \/ \E k \in 1..NumWorkers : queue' = queue \o Sentinels(k)]_vars
    /\ [](\A t \in Tasks :
            st[t] = "queued" <=>
                Cardinality({i \in 1..Len(queue) : queue[i] = t}) = 1)
    /\ [](\A i \in 1..Len(queue) : queue[i] = None \/ st[queue[i]] = "queued")

\* A payload submitted later was accepted, and so claimed, before one submitted
\* earlier that waited in a blocking put.
C15_Witness ==
    \E t, u \in Tasks :
        /\ t < u
        /\ st[u] = "claimed"
        /\ st[t] = "queued"
        /\ queue = <<t>>

\* C16, as claimed: every call to stop() eventually returns.
C16_Original == (stop_pc \in {"putting", "gathering"}) ~> (stop_pc = "returned")

\* C16, what goes wrong: stop() is suspended in queue.put(None) on a full queue
\* after every worker has left its loop, so nothing will ever take an item.
C16_StopStuck ==
    /\ stop_pc = "putting"
    /\ Full(queue)
    /\ \A w \in Workers : pc[w] = "exited"

\* C17, its first half: stop() has not returned while a claimed task is short
\* of its terminal outcome.
C17_InFlightFinished == stop_pc = "returned" => \A t \in Tasks : st[t] # "claimed"

\* C17, as claimed: stop() does not return before every in-flight task has its
\* terminal outcome, and no payload that was in the queue when stop() was called
\* is recorded as successfully processed.
C17_Original ==
    /\ C17_InFlightFinished
    /\ \A t \in queuedAtStop : st[t] # "done"

\* A job that a worker took from the queue of app/worker_pool.py.
Dequeued(j) == jst[j] \in {"claimed", "cancelled", "finished"}

\* C18, as claimed: a job that was dequeued and that no worker is working on
\* any more (it ran to its end, or stop() cancelled its worker) has its future
\* completed, with a result or with an exception.
C18_Original ==
    \A j \in Jobs :
        (Dequeued(j) /\ \A w \in Workers : wp_job[w] # j) =>
            fut[j] \in {"result", "exception"}

\* C19: the future of a job is created pending by submit and is completed only
\* by the worker that holds the job, in the step in which that worker is done
\* with it, and then never changes again: with the result when an attempt of the
\* downstream call succeeded (counted in jobs_processed), with the exception
\* when the call failed, met the open circuit or was timed out (counted in
\* jobs_failed). A job that ran to its end has a completed future.
C19_FutureOnce ==
    /\ [][\A j \in Jobs :
            fut'[j] # fut[j] =>
                \/ fut[j] = "none" /\ fut'[j] = "pending"
                \/ /\ fut[j] = "pending"
                   /\ jst[j] = "claimed" /\ jst'[j] = "finished"
                   /\ \E w \in Workers :
                         /\ wp_job[w] = j /\ wp_job'[w] = None
                         /\ IF fut'[j] = "result"
                            THEN /\ wp_pc[w] = "do_call"
                                 /\ jobs_processed' = jobs_processed + 1
                                 /\ jobs_failed' = jobs_failed
                            ELSE /\ fut'[j] = "exception"
                                 /\ wp_pc[w] \in {"call", "do_call", "jitter"}
                                 /\ jobs_failed' = jobs_failed + 1
                                 /\ jobs_processed' = jobs_processed]_vars
    /\ [](\A j \in Jobs : jst[j] = "finished" <=> fut[j] \in {"result", "exception"})
    /\ [](jobs_processed = Cardinality({j \in Jobs : fut[j] = "result"}))

\* One job ended with its result, another with an exception after a retry.
C19_Witness ==
    /\ \E j \in Jobs : fut[j] = "result"
    /\ \E j \in Jobs : fut[j] = "exception"
    /\ cb.fail_count > 1
    /\ jobs_failed = 1

\* C20, as claimed: one invocation of DownstreamClient.call makes at most one
\* attempt at the downstream operation: after a failed attempt it never starts
\* another one.
C20_Original ==
    /\ [][\A w \in Workers : wp_pc[w] = "jitter" => wp_pc'[w] # "do_call"]_vars
    /\ [](\A w \in Workers : ds_attempt[w] <= 1)

\* C21, as claimed: when a downstream call of app/downstream.py succeeds, the
\* failure count of its breaker is zero afterwards.
C21_Original ==
    [][\A w \in Workers :
          (wp_pc[w] = "do_call" /\ wp_job[w] # None /\ fut'[wp_job[w]] = "result") =>
              cb'.fail_count = 0]_vars

\* C22, as claimed: a job whose downstream call started with the breaker closed
\* and whose future receives an error (the call failed, or the job timeout cut
\* it off) has recorded at least one failure in the breaker: an earlier attempt
\* of the call failed, or the current one did and sleeps in its jitter.
C22_Original ==
    [][\A w \in Workers :
          (/\ wp_pc[w] \in {"do_call", "jitter"}
           /\ wp_job[w] # None
           /\ fut'[wp_job[w]] = "exception") =>
              (ds_attempt[w] > 1 \/ wp_pc[w] = "jitter")]_vars


\* C23, as claimed: whatever start(), submit() and stop() calls are made, at most
\* self.workers worker loops are alive and at most self.workers tasks are being
\* processed at the same time.
C23_Original ==
    /\ Cardinality({w \in Workers : pc[w] \notin {"none", "exited"}}) <= workers
    /\ Cardinality({w \in Workers : item[w] # None}) <= workers


\* C24, as claimed: occupied always equals the number of worker loops that have
\* claimed a task and not yet finished it, hence it stays within 0..self.workers
\* and is 0 whenever every loop is idle.
C24_Original ==
    /\ occupied = Cardinality({w \in Workers : item[w] # None})
    /\ occupied \in 0..workers
    /\ (\A w \in Workers : pc[w] \in {"none", "get", "exited"}) => occupied = 0


\* A worker thread is inside one of its two _set_worker_occupied calls.
TpUpdating(w) ==
    tp_pc[w] \in {"inc_read", "inc_write", "inc_gauge", "dec_read", "dec_write", "dec_gauge"}

\* A worker thread is inside _handle_item.
TpHandling(w) == tp_item[w].task # None /\ ~TpUpdating(w)

\* C25, as claimed: under every interleaving of the worker threads the
\* worker_occupied gauge is never negative, never exceeds num_workers, and,
\* whenever no thread is in the middle of updating it, equals the number of
\* workers handling an item.
C25_Original ==
    /\ worker_occupied >= 0
    /\ worker_occupied <= num_workers
    /\ (\A w \in Workers : ~TpUpdating(w)) =>
           worker_occupied = Cardinality({w \in Workers : TpHandling(w)})


\* A request of app/__init__.py gets its response in this step.
Answered(r) == response[r] = NoResponse /\ response'[r] # NoResponse

\* A request of app/api.py gets its response in this step.
WpAnswered(j) == process(j) = NoResponse /\ process(j)' # NoResponse

\* Item r of app/__init__.py is in the queue or with a worker.
ApPresent(r) ==
    \/ \E i \in 1..Len(ap_queue) : ap_queue[i] = r
    \/ \E w \in Workers : ap_item[w] = r

\* Job j of app/worker_pool.py is in the queue or with a worker.
WpPresent(j) ==
    \/ \E i \in 1..Len(wp_queue) : wp_queue[i] = j
    \/ \E w \in Workers : wp_job[w] = j

\* C26: every POST /process of app/__init__.py and of app/api.py is answered
\* once, either with 202 and an identifier no other request got, the task being
\* in the queue when the response is made, or with a 429 or 503 that carries
\* Retry-After, the task never being in the queue or with a worker and having
\* no result entry; the response to a rejection made because the circuit is
\* open differs from the response to one made because the queue is full.
C26_SubmitOutcomes ==
    /\ [](\A r \in Reqs :
            \/ response[r] = NoResponse
            \/ /\ response[r].status = 202
               /\ response[r].id = r
               /\ \A u \in Reqs \ {r} : response[u].id # response[r].id
               /\ results[r] # NoEntry
            \/ /\ response[r].status \in {429, 503}
               /\ response[r].retry_after > 0
               /\ ~ApPresent(r)
               /\ results[r] = NoEntry)
    /\ [][\A r \in Reqs :
            /\ response[r] # NoResponse => response'[r] = response[r]
            /\ (Answered(r) /\ response'[r].status = 202) =>
                   ap_queue # ap_queue' /\ ap_queue'[Len(ap_queue')] = r
            /\ (Answered(r) /\ response'[r].status # 202) =>
                   /\ ap_queue' = ap_queue
                   /\ unavailable # backlog_full
                   /\ response'[r] = IF ApCircuitOpen THEN unavailable ELSE backlog_full]_vars
    /\ [](\A j \in Jobs :
            \/ process(j) = NoResponse
            \/ process(j).status = 202 /\ process(j).id = j
            \/ /\ process(j).status \in {429, 503}
               /\ process(j).retry_after > 0
               /\ ~WpPresent(j))
    /\ [][\A j \in Jobs :
            /\ process(j) # NoResponse => process(j)' = process(j)
            /\ (WpAnswered(j) /\ process(j)'.status = 202) =>
                   wp_queue # wp_queue' /\ wp_queue'[Len(wp_queue')] = j
            /\ (WpAnswered(j) /\ process(j)'.status # 202) =>
                   wp_queue' = wp_queue]_vars

\* All three outcomes of app/__init__.py have occurred: a 202 whose task has run,
\* a queue-full 503 and a circuit-open 503.
C26_Witness ==
    /\ \E r \in Reqs : response[r].status = 202 /\ results[r].status # "queued"
    /\ \E r \in Reqs : response[r] = backlog_full
    /\ \E r \in Reqs : response[r] = unavailable


\* C27: at every moment after its POST /process was answered with 202, the
\* lookup of a task identifier returns a status among queued, processing, done
\* and failed, with the result value whenever the status is done; for the
\* identifier of a request that was never accepted it signals not-found.
C27_ResultLookup ==
    \A r \in Reqs :
        IF response[r].status = 202
        THEN /\ get_result(r).status \in {"queued", "processing", "done", "failed"}
             /\ get_result(r).status = "done" => get_result(r).result
        ELSE get_result(r).status = "not found"

\* One task is done, one has failed, and one request was rejected.
C27_Witness ==
    /\ \E r \in Reqs : response[r].status = 202 /\ get_result(r) = DoneEntry
    /\ \E r \in Reqs : response[r].status = 202 /\ get_result(r).status = "failed"
    /\ \E r \in Reqs : response[r].status = 503 /\ get_result(r).status = "not found"


\* C28, as claimed: when an attempt inside process_item fails because the
\* circuit is open, the task becomes failed at once, without a backoff sleep and
\* without another attempt, and the breaker's failure count and open_until are
\* left as they were.
C28_Original ==
    [][\A w \in Workers :
          (ap_pc[w] = "call" /\ ap_pc'[w] # "call" /\ ApCircuitOpen) =>
              /\ results'[ap_item[w]].status = "failed"
              /\ ap_pc'[w] = "get"
              /\ ap_cb' = ap_cb]_vars


\* C29: the failure that makes cb_threshold consecutive failures opens the
\* breaker of the threaded pool for the reset time, and every submit made while
\* now < cb_open_until returns False at once, adds one to the rejected counter
\* and leaves the queue as it is.
C29_OpenRejects ==
    /\ [][(consecutive_failures' = consecutive_failures + 1
             /\ consecutive_failures' >= cb_threshold) =>
              cb_open_until' = now + ResetTimeout /\ now < cb_open_until']_vars
    /\ [][\A t \in TpTasks :
            (tst[t] = "new" /\ tst'[t] # "new" /\ now < cb_open_until) =>
                /\ tst'[t] = "rejected"
                /\ sub_pc' = "idle"
                /\ rejected' = rejected + 1
                /\ tp_queue' = tp_queue]_vars

\* The second task was submitted a tick after the failures of the first opened
\* the breaker, and was rejected. (The clock advances only while a task is still
\* to be submitted and the breaker is open, so this submit met the open breaker.)
C29_Witness ==
    /\ now = 2
    /\ cb_open_until = 1 + ResetTimeout
    /\ consecutive_failures >= cb_threshold
    /\ tst[2] = "rejected"
    /\ tst[1] \notin {"new", "rejected"}


\* C30, as claimed: an accepted task of the threaded pool whose function fails
\* f <= retry_limit times and then succeeds is never executed more than f + 1
\* times, and when the pool is through with it, it has been executed exactly
\* f + 1 times and has succeeded, whatever the other tasks and the queue did.
C30_Original ==
    \A t \in TpTasks :
        tp_script[t] <= retry_limit =>
            /\ execs[t] <= tp_script[t] + 1
            /\ tst[t] \in {"done", "dropped", "exhausted"} =>
                   tst[t] = "done" /\ execs[t] = tp_script[t] + 1


\* C31: the i-th delay slept for a task follows its failed attempt i, with
\* i <= max_retries, and lies between 0.8 and 1.2 times backoff_base * 2^(i-1);
\* the delay before the jitter is backoff_base after the first attempt and
\* doubles with each further one.
C31_BackoffWindow ==
    \A i \in 1..Len(bo_slept) :
        /\ bo_slept[i].attempt = i
        /\ i <= bo_max_retries
        /\ 10 * bo_slept[i].slept >= 8 * Scale * backoff_base * 2^(i - 1)
        /\ 10 * bo_slept[i].slept <= 12 * Scale * backoff_base * 2^(i - 1)
        /\ bo_slept[i].backoff = IF i = 1 THEN backoff_base ELSE 2 * bo_slept[i - 1].backoff

\* Three delays have been slept for one task, the first at the floor of the
\* jitter and the third at its largest value.
C31_Witness ==
    /\ Len(bo_slept) = 3
    /\ 10 * bo_slept[1].slept = 8 * Scale * backoff_base
    /\ bo_slept[3].slept = Jittered(4 * backoff_base, JitterSteps - 1)
    /\ bo_pc = "sleep"


\* A thread of the threaded pool has taken an item of task t and has not yet
\* finished with it: it is about to call, calls, or has called the function and
\* not yet re-enqueued or given up the item.
TpClaimed(w, t) ==
    tp_item[w].task = t /\ tp_pc[w] \in {"inc_read", "inc_write", "inc_gauge", "run", "sleep", "give_up"}

\* How often x occurs in the sequence q.
Count(q, x) == Cardinality({i \in 1..Len(q) : q[i] = x})

\* C32: in app/worker.py and in the threaded pool every queued item is taken by
\* exactly one worker (the dequeue removes it and hands it to one worker), a
\* task is never both queued and claimed or claimed by two workers, and no two
\* attempts of the same task execute at the same time.
C32_ClaimedOnce ==
    /\ [](\A t \in Tasks :
            Count(queue, t) + Cardinality({w \in Workers : item[w] = t}) <= 1)
    /\ [](\A t \in TpTasks :
            /\ Cardinality({i \in 1..Len(tp_queue) : tp_queue[i].task = t})
                  + Cardinality({w \in Workers : TpClaimed(w, t)}) <= 1
            /\ Cardinality({w \in Workers : tp_pc[w] = "run" /\ tp_item[w].task = t}) <= 1)
    /\ [][(queue # <<>> /\ Head(queue) # None /\ Len(queue') < Len(queue)) =>
             /\ queue' = Tail(queue)
             /\ Cardinality({w \in Workers : item'[w] # item[w]}) = 1
             /\ \E w \in Workers : pc[w] = "get" /\ item'[w] = Head(queue)]_vars
    /\ [][(Len(tp_queue') < Len(tp_queue)) =>
             /\ tp_queue' = Tail(tp_queue)
             /\ Cardinality({w \in Workers : tp_item'[w] # tp_item[w]}) = 1
             /\ \E w \in Workers : tp_pc[w] = "get" /\ tp_item'[w] = Head(tp_queue)]_vars

\* The second attempt of task 1 runs on the second thread while the first
\* thread, which ran the first attempt and re-enqueued the item, has not yet
\* come back to the queue.
C32_Witness ==
    /\ tp_pc[2] = "run"
    /\ tp_item[2] = [task |-> 1, attempts |-> 1]
    /\ tp_item[1].task = 1
    /\ tp_pc[1] \in {"dec_read", "dec_write", "dec_gauge"}


\* C33: a result entry of app/__init__.py is never removed; its status changes
\* only from queued to processing and from processing to done or failed, and a
\* done or failed entry never changes again.
C33_StatusForward ==
    [][\A r \in Reqs :
          /\ results[r] # NoEntry => results'[r] # NoEntry
          /\ results'[r] # results[r] =>
                \/ results[r] = NoEntry /\ results'[r].status = "queued"
                \/ results[r].status = "queued" /\ results'[r].status = "processing"
                \/ results[r].status = "processing" /\ results'[r].status \in {"done", "failed"}]_vars

\* One entry is done, one has failed and one is being processed.
C33_Witness ==
    /\ \E r \in Reqs : results[r].status = "done"
    /\ \E r \in Reqs : results[r].status = "failed"
    /\ \E r \in Reqs : results[r].status = "processing"


\* The attempts of the item worker w processes that have failed so far.
ApFailed(w) == IF ap_pc[w] = "backoff" THEN ap_attempt[w] ELSE ap_attempt[w] - 1

\* C34: in process_item the status of a task becomes failed only when exactly 3
\* of its attempts have failed, becomes done in the step in which an attempt
\* succeeds, which is its first success, and is processing for as long as fewer
\* than 3 attempts have failed and none has succeeded.
C34_ThreeAttempts ==
    /\ [](\A w \in Workers :
            ap_item[w] # None => results[ap_item[w]].status = "processing" /\ ApFailed(w) <= 3)
    /\ [][\A w \in Workers :
            ap_item[w] # None =>
                /\ results'[ap_item[w]].status = "failed" =>
                       ApFailed(w) = 3 /\ ap_item'[w] = None
                /\ results'[ap_item[w]].status = "done" =>
                       ap_pc[w] = "latency" /\ ApFailed(w) < 3 /\ ap_item'[w] = None
                /\ (ap_pc[w] = "latency" /\ ap_pc'[w] \notin {"latency", "backoff"}) =>
                       results'[ap_item[w]].status = "done"]_vars

\* A task has failed, and the third attempt of another is under way.
C34_Witness ==
    /\ \E r \in Reqs : results[r].status = "failed"
    /\ \E w \in Workers : ap_pc[w] = "latency" /\ ap_attempt[w] = 3


\* C35: a submit of app/worker_pool.py that raises QueueFullError, at once or
\* when its admission timeout expires, leaves the queue as it was, and the
\* rejected job is never in the queue or with a worker afterwards.
C35_RejectedStaysOut ==
    /\ [][\A j \in Jobs :
            /\ (jst[j] # "rejected" /\ jst'[j] = "rejected") => wp_queue' = wp_queue
            /\ jst[j] = "rejected" => jst'[j] = "rejected"]_vars
    /\ [](\A j \in Jobs :
            jst[j] = "rejected" =>
                /\ ~WpPresent(j)
                /\ \A i \in 1..Len(wp_putters) : wp_putters[i] # j)

\* A job was rejected and a job submitted after it has been processed.
C35_Witness ==
    \E j, k \in Jobs : j < k /\ jst[j] = "rejected" /\ jst[k] = "finished"


\* C36: after any sequence of record_failure, record_success and is_open calls
\* the CircuitBreaker of app/worker.py is open only if failures >= threshold,
\* and while it is closed failures < threshold.
C36_OpenIffThreshold ==
    /\ circuit.opened_at # None => circuit.failures >= threshold
    /\ circuit.opened_at = None => circuit.failures < threshold

\* The breaker is open with more failures than the threshold, later than it
\* opened: failures went on after the one that opened it.
C36_Witness ==
    /\ prog = "breaker"
    /\ circuit.opened_at # None
    /\ circuit.opened_at < now
    /\ circuit.failures > threshold
    /\ threshold > 1


\* C37: the rejected counter of the threaded pool never decreases and always
\* equals the number of submit calls that returned False plus the number of
\* accepted tasks given up for good (retries exhausted, or a retry that met a
\* full queue); so it is at least the number of rejected submissions.
C37_RejectedCounts ==
    /\ [][rejected' >= rejected]_vars
    /\ [](rejected = Cardinality({t \in TpTasks : tst[t] = "rejected"})
                       + Cardinality({t \in TpTasks : tst[t] \in {"exhausted", "dropped"}}))

\* One submission was refused and one accepted task was given up.
C37_Witness ==
    /\ \E t \in TpTasks : tst[t] = "rejected"
    /\ \E t \in TpTasks : tst[t] \in {"exhausted", "dropped"}
    /\ rejected = 2


\* C38, as claimed: under every interleaving of concurrent get_or_set calls for
\* the same key at most one loader for that key is executing at any time.
C38_Original == Cardinality({c \in Callers : ca_pc[c] = "loading"}) <= 1


\* A POST /process request for job j is received in this step.
ApiReceived(j) == jst[j] = "new" /\ jst'[j] # "new"

\* No request is suspended in submit; every worker is at an await in any state.
ApiQuiescent == wp_putters = <<>>

\* C39, as claimed: in the service of app/api.py and app/worker_pool.py the
\* jobs_received counter increases by exactly one per POST /process request, so
\* that at every quiescent point jobs_received = jobs_processed + jobs_failed +
\* queued jobs + in-flight jobs.
C39_Original ==
    /\ [][\A j \in Jobs : ApiReceived(j) => jobs_received' = jobs_received + 1]_vars
    /\ [](ApiQuiescent =>
            jobs_received = jobs_processed + jobs_failed + Len(wp_queue)
                              + Cardinality({w \in Workers : InFlight(w)}))

====
